---- MODULE Spec2Model ----
(***************************************************************************)
(* Coordinator core of agent-grid: the durable store (executions,          *)
(* issue_state, nudge_queue), the event-driven Scheduler, the periodic     *)
(* ManagementLoop, the cancel endpoint and the compute backend's launch    *)
(* interface.  The scheduler's event handler, the management loop and the  *)
(* HTTP endpoints are coroutines on one event loop: they interleave at     *)
(* their awaits, and every database statement is atomic.                   *)
(***************************************************************************)
EXTENDS Integers, Sequences, FiniteSets, TLC

\* ---------------------------------------------------------------- bounds
NumIssues == 2
\* execution ids (uuid4 values) a behaviour may draw
MaxExec == 3
\* ... and the ids it may draw where the scheduler, the management loop and
\* the cancel endpoint run concurrently
MaxRace == 2

\* webhook deliveries a behaviour may receive
MaxHooks == 3
\* the last instant of the webhook processor's clock
MaxTime == 4
\* cycles ManagementLoop._loop may run
MaxCycles == 3
\* comments on an issue
MaxComments == 3
\* publish calls a behaviour may make
MaxPublish == 4
\* restarts of the coordinator process
MaxRestarts == 1

Issues == 1..NumIssues
ExecIds == 1..MaxExec
\* head_sha of a check_run payload; "" is the payload.get default
Shas == {"", "sha_a"}

\* ------------------------------------------------------- settings (config)
\* AGENT_GRID_MAX_CONCURRENT_EXECUTIONS: a deployment setting, here one less
\* than the number of issues so that the limit can be reached
max_concurrent_executions == NumIssues - 1
max_retries_per_issue == 2
max_ci_fix_retries == 2
\* the default limit of Database.list_executions (100 in the code), here
\* below the number of issues so that a listing can be cut short
list_limit == NumIssues - 1
\* AGENT_GRID_WEBHOOK_DEDUP_QUIET_PERIOD_SECONDS, in clock instants
quiet_period == 2
\* the limit of one get_unprocessed_webhook_events read (100 in the code),
\* here below the number of deliveries so that a read can be cut short
batch_limit == MaxHooks - 1
\* AGENT_GRID_EVENT_BUS_MAX_SIZE (1000 by default), here below the number of
\* publish calls so that the queue can be full
max_size == MaxPublish - 2

\* ------------------------------------------------------------------ state
VARIABLES
    executions,       \* table executions: id -> row
    issue_state,      \* table issue_state: issue number -> row
    nudge_queue,      \* issues with an unprocessed nudge_queue row
    labels,           \* tracker: issue -> set of labels
    comments,         \* tracker: issue -> the comment posted last
    issue_open,       \* tracker: issue -> open?
    launches,         \* launch_agent calls the compute backend accepted
    failed_launches,  \* execution ids whose launch_agent call raised
    lost_claims,      \* the try_claim_issue calls that returned false
    next_id,          \* uuid4(): next fresh execution id
    overdue,          \* utc_now(): the executions whose started_at lies more
                      \* than execution_timeout_seconds in the past
    task,             \* "sched": the scheduler's event handler (one event at
                      \* a time); "loop": the management loop
    api,              \* the cancel endpoint's request
    webhook_events,   \* table webhook_events (the inbox): id -> row
    bus,              \* event_bus: the events published by the webhook path
    responses,        \* the webhook endpoint's answers, one per delivery
    now,              \* utc_now() as the webhook processor reads it
    proc,             \* WebhookProcessor._process_loop
    runs,             \* the runs of run_cycle: "loop" is ManagementLoop._loop,
                      \* "job1" and "job2" are invocations of scheduled_task
    lock,             \* pg advisory lock 42: the invocation whose session holds it
    reviews,          \* tracker: the CHANGES_REQUESTED / COMMENTED reviews with
                      \* a body on the open agent PRs
    last_pr_check,    \* cron_state "last_pr_check": the timestamp, or NoCheck
    threads,          \* tracker: issue -> its comments in order
    fetched,          \* issue -> the comments of the issue as the unblocked
                      \* sweep fetched them (issue.comments of its IssueInfo)
    blocked_by,       \* tracker: issue -> the issues its body names as blockers
    subissues,        \* tracker: issue -> its sub-issues
    queue,            \* EventBus._queue
    consumer,         \* EventBus._consume_loop
    handed,           \* handler -> the events its calls received, in order
    published,        \* the number of publish calls so far
    dropped,          \* the events publish discarded
    raised,           \* the handler calls that raised: <<event id, handler>>
    cancelled,        \* the executions whose AGENT_FAILED event ("Cancelled"),
                      \* published by the backend's cancel_execution, the
                      \* scheduler has yet to handle
    oz,               \* OzExecutionGrid: _run_map, _poll_errors, and where its
                      \* _poll_loop and its cancel_execution calls stand
    oz_runs,          \* the Oz service: execution -> state of its run
    external_run_id,  \* executions.external_run_id: the rows that hold a handle
    terminal_events,  \* execution -> the AGENT_COMPLETED / AGENT_FAILED events
                      \* the backend has published for it since the last start
    restarts,         \* the restarts of the coordinator so far
    label_calls,      \* the transition_to calls in progress: caller -> where
                      \* the call stands and what its get_issue returned
    nudge_events      \* the NUDGE_REQUESTED events published and not yet
                      \* handled: the issues of their nudges

vars == <<executions, issue_state, nudge_queue, labels, comments, issue_open,
          launches, failed_launches, lost_claims, next_id, overdue, task, api,
          webhook_events, bus, responses, now, proc, runs, lock,
          reviews, last_pr_check, threads, fetched, blocked_by, subissues,
          queue, consumer, handed, published, dropped, raised, cancelled,
          oz, oz_runs, external_run_id, terminal_events, restarts, label_calls,
          nudge_events>>

hooks == <<webhook_events, bus, responses, now, proc>>

core == <<executions, issue_state, nudge_queue, labels, comments, issue_open,
          launches, failed_launches, lost_claims, next_id, overdue, task, api>>

ext == <<runs, lock, reviews, last_pr_check, threads, fetched, blocked_by,
         subissues, queue, consumer, handed, published, dropped, raised,
         cancelled, oz, oz_runs, external_run_id, terminal_events, restarts,
         label_calls, nudge_events>>

\* the variables of the standalone job and of the sweeps' own state
job == <<runs, lock>>
deps == <<blocked_by, subissues>>
ebus == <<queue, consumer, handed, published, dropped, raised>>
ozgrid == <<oz, oz_runs, external_run_id, terminal_events, restarts>>
sweeps == <<reviews, last_pr_check, threads, fetched, deps>>

\* ----------------------------------------------------------------- labels
AG_LABELS ==
    {"ag/todo", "ag/in-progress", "ag/blocked", "ag/waiting", "ag/planning",
     "ag/review-pending", "ag/done", "ag/failed", "ag/skipped",
     "ag/sub-issue", "ag/epic"}

HANDLED_LABELS ==
    {"ag/in-progress", "ag/blocked", "ag/waiting", "ag/planning",
     "ag/review-pending", "ag/done", "ag/failed", "ag/skipped",
     "ag/epic", "ag/sub-issue"}

\* LabelManager.transition_to: remove the other ag/* labels, add the new one
transition_to(ls, new_label) ==
    LET current_ag_labels == ls \cap AG_LABELS
        removed == ls \ {l \in current_ag_labels : l # new_label}
    IN  IF new_label \notin current_ag_labels
        THEN removed \cup {new_label}
        ELSE removed

\* label.startswith("ag/"): the managed labels and one the system does not
\* manage
ag_prefixed(l) == l \in AG_LABELS \cup {"ag/custom"}

\* Scheduler._should_auto_launch
_should_auto_launch(ls) == \E l \in ls : ag_prefixed(l)

\* ------------------------------------------------------------- executions
ACTIVE == {"pending", "running"}
TERMINAL == {"completed", "failed"}

NoRow == [issue_id |-> 0, status |-> "none", result |-> "none", created_at |-> 0,
          checkpoint |-> "NULL"]

RowIds == {e \in ExecIds : executions[e].status # "none"}

\* WHERE issue_id = $2 AND status IN ('pending', 'running')
ActiveRows(i) ==
    {e \in RowIds : executions[e].issue_id = i /\ executions[e].status \in ACTIVE}

AllActive == {e \in RowIds : executions[e].status \in ACTIVE}

\* a claim that every caller wins
claim_always_wins(i) == TRUE

\* Database.try_claim_issue: INSERT ... WHERE NOT EXISTS (active row)
claim_wins(i) == ActiveRows(i) = {}

\* an INSERT without the WHERE NOT EXISTS and without the unique index
try_claim_unguarded(eid, i) ==
    [executions EXCEPT ![eid] =
        [issue_id |-> i, status |-> "pending", result |-> "none",
         created_at |-> Cardinality(RowIds) + 1, checkpoint |-> "NULL"]]

try_claim_issue(eid, i) ==
    IF claim_wins(i)
    THEN [executions EXCEPT ![eid] =
            [issue_id |-> i, status |-> "pending", result |-> "none",
             created_at |-> Cardinality(RowIds) + 1, checkpoint |-> "NULL"]]
    ELSE executions

\* an update that leaves a completed or failed row alone
update_execution_if_active(eid, status, result) ==
    IF eid \in RowIds /\ executions[eid].status \in ACTIVE
    THEN [executions EXCEPT ![eid].status = status, ![eid].result = result]
    ELSE executions

\* Database.update_execution: UPDATE ... SET status, result WHERE id = $1
update_execution(eid, status, result) ==
    IF eid \in RowIds
    THEN [executions EXCEPT ![eid].status = status, ![eid].result = result]
    ELSE executions

\* Database.get_execution_for_issue: ORDER BY created_at DESC LIMIT 1
get_execution_for_issue(i) ==
    LET rows == {e \in RowIds : executions[e].issue_id = i}
    IN  IF rows = {} THEN 0
        ELSE CHOOSE e \in rows :
                \A f \in rows : executions[f].created_at <= executions[e].created_at

\* ManagementLoop._has_active_execution
_has_active_execution(i) ==
    LET existing == get_execution_for_issue(i)
    IN  existing # 0 /\ executions[existing].status \in ACTIVE

\* Database.list_executions(status): ORDER BY created_at DESC LIMIT limit
list_executions(status, limit) ==
    LET rows == {e \in RowIds : executions[e].status = status}
    IN  {e \in rows :
            Cardinality({f \in rows : executions[f].created_at > executions[e].created_at})
                < limit}

\* the checkpoint of an agent's result; "NULL": the payload has none
Checkpoints == {"NULL", "cp_a", "cp_b"}

\* Database.save_checkpoint: UPDATE executions SET checkpoint = $2 WHERE id = $1
save_checkpoint(rows, eid, checkpoint) ==
    [rows EXCEPT ![eid].checkpoint = checkpoint]

\* Database.get_latest_checkpoint: WHERE issue_id = $1 AND checkpoint IS NOT
\* NULL ORDER BY created_at DESC LIMIT 1
get_latest_checkpoint(rows, i) ==
    LET with == {e \in ExecIds : /\ rows[e].status # "none"
                                 /\ rows[e].issue_id = i
                                 /\ rows[e].checkpoint # "NULL"}
    IN  IF with = {} THEN "NULL"
        ELSE rows[CHOOSE e \in with :
                    \A f \in with : rows[f].created_at <= rows[e].created_at].checkpoint

\* BudgetManager.can_launch_agent: counts the rows with status = 'running'
RunningCount == Cardinality({e \in RowIds : executions[e].status = "running"})
can_launch_agent == RunningCount < max_concurrent_executions

\* ------------------------------------------------------------ issue_state
NullMeta == [null |-> TRUE, ci_fix_count |-> 0, last_ci_check_sha |-> "NULL"]
NoState == [exists |-> FALSE, classification |-> "NULL", retry_count |-> 0,
            metadata |-> NullMeta]

COALESCE_str(a, b) == IF a # "NULL" THEN a ELSE b
COALESCE_meta(a, b) == IF ~a.null THEN a ELSE b

\* the default of the retry_count parameter of upsert_issue_state
default_retry_count == 0

\* Database.upsert_issue_state (INSERT ... ON CONFLICT DO UPDATE)
upsert_issue_state(st, classification, retry_count, metadata) ==
    IF ~st.exists
    THEN [exists |-> TRUE, classification |-> classification,
          retry_count |-> retry_count, metadata |-> metadata]
    ELSE [exists |-> TRUE,
          classification |-> COALESCE_str(classification, st.classification),
          retry_count |-> retry_count,
          metadata |-> COALESCE_meta(metadata, st.metadata)]

\* (issue_state or {}).get("retry_count", 0)
read_retry_count(i) == IF issue_state[i].exists THEN issue_state[i].retry_count ELSE 0
\* (issue_state or {}).get("metadata") or {}
meta_of(st) == IF st.exists THEN st.metadata ELSE NullMeta
read_metadata(i) == meta_of(issue_state[i])

\* ------------------------------------------------------------------ tasks
Categories == {"SIMPLE", "COMPLEX", "BLOCKED", "SKIP"}

IdleTask == [pc |-> "idle", kind |-> "none", issue_id |-> 0, mode |-> "none",
             eid |-> 0, retry_count |-> 0, metadata |-> NullMeta,
             seen |-> -1, items |-> {}, due |-> {}, ret |-> "idle"]

Tasks == {"sched", "loop"}

IdleApi == [pc |-> "idle", eid |-> 0]

\* OzExecutionGrid.__init__, and _poll_loop once start_polling has started it
IdlePoll == [pc |-> "sleep", items |-> {}, eid |-> 0]
\* two callers of LabelManager.transition_to that can run at the same time
\* (the scheduler's handler and the management loop)
Callers == {"sched", "loop"}
IdleCall == [pc |-> "idle", issue_id |-> 0, new_label |-> "none",
             current_ag_labels |-> {}]
NewOz == [run_map |-> {}, poll_errors |-> [e \in ExecIds |-> 0],
          poll |-> IdlePoll, cancelling |-> {}]

\* ---------------------------------------------------------- webhook inbox
\* ids of the webhook_events rows, in the order of their insertion
HookIds == 1..MaxHooks
\* X-GitHub-Delivery values
DeliveryIds == 1..MaxHooks
\* issue numbers of a webhook payload; 0: the payload names no issue
HookIssues == {0, 1}

NoHook == [delivery_id |-> 0, event_type |-> "none", action |-> "none",
           issue_id |-> 0, has_labels |-> FALSE, labels |-> {},
           nudge |-> FALSE, processed |-> FALSE, coalesced_into |-> 0,
           received_at |-> 0]

\* the webhook payloads: X-GitHub-Event, action, the issue's labels array (if
\* the payload has one) and whether a comment body holds "@agent-grid nudge"
HookKinds ==
    {[event_type |-> "issues", action |-> "opened", has_labels |-> TRUE,
      labels |-> {}, nudge |-> FALSE],
     [event_type |-> "issues", action |-> "opened", has_labels |-> TRUE,
      labels |-> {"ag/todo"}, nudge |-> FALSE],
     [event_type |-> "issues", action |-> "labeled", has_labels |-> TRUE,
      labels |-> {"agent"}, nudge |-> FALSE],
     [event_type |-> "issues", action |-> "closed", has_labels |-> TRUE,
      labels |-> {"agent"}, nudge |-> FALSE],
     [event_type |-> "issue_comment", action |-> "created", has_labels |-> FALSE,
      labels |-> {}, nudge |-> TRUE]}

IdleProc == [pc |-> "sleep", batch |-> {}]

\* the event types of the bus's traffic
EventTypes == {"issue.created", "agent.completed"}
\* EventBus._subscribers: the key of each handler's subscription, in the
\* order of the subscribe calls; "None" subscribes to every type
Subscriptions == << [handler |-> "all_1", key |-> "None"],
                    [handler |-> "completed", key |-> "agent.completed"],
                    [handler |-> "all_2", key |-> "None"] >>
Handlers == {Subscriptions[k].handler : k \in 1..Len(Subscriptions)}
\* _consume_loop waits in queue.get()
IdleConsumer == [pc |-> "get", event |-> [id |-> 0, type |-> "none"]]

\* get_cron_state("last_pr_check") returns no row
NoCheck == 0 - 1

\* run_cycle: its phases in the order of the code
Phases == <<"scan", "classify", "in_progress", "prs", "closed_prs", "blocked",
            "dependencies", "parents">>
\* the phases whose own except clause catches a failing request
Catching == {"prs", "closed_prs", "dependencies"}
Jobs == {"job1", "job2"}
Runners == {"loop"} \cup Jobs
\* phase: index of the phase that runs next; ran: the phases of this cycle
\* that returned; caught: those that returned after catching an exception;
\* raised: the phase whose exception left run_cycle; n: cycles started
IdleRun == [pc |-> "idle", phase |-> 1, ran |-> {}, caught |-> {},
            raised |-> "none", n |-> 0]

\* the empty store, the idle tasks and the tracker without the labels, the
\* comments and the relations between issues
InitStore ==
    /\ executions = [e \in ExecIds |-> NoRow]
    /\ issue_state = [i \in Issues |-> NoState]
    /\ nudge_queue = {}
    /\ comments = [i \in Issues |-> "none"]
    /\ issue_open = [i \in Issues |-> TRUE]
    /\ launches = {}
    /\ failed_launches = {}
    /\ lost_claims = {}
    /\ next_id = 1
    /\ overdue = {}
    /\ task = [t \in Tasks |-> IdleTask]
    /\ api = IdleApi
    /\ webhook_events = [h \in HookIds |-> NoHook]
    /\ bus = <<>>
    /\ responses = <<>>
    /\ now = 0
    /\ proc = IdleProc
    /\ runs = [r \in Runners |-> IdleRun]
    /\ lock = "free"
    /\ reviews = {}
    /\ last_pr_check = NoCheck
    /\ fetched = [i \in Issues |-> <<>>]
    /\ queue = <<>>
    /\ consumer = IdleConsumer
    /\ handed = [h \in Handlers |-> <<>>]
    /\ published = 0
    /\ dropped = {}
    /\ raised = {}
    /\ cancelled = {}
    /\ oz = NewOz
    /\ oz_runs = [e \in ExecIds |-> "none"]
    /\ external_run_id = {}
    /\ terminal_events = [e \in ExecIds |-> 0]
    /\ restarts = 0
    /\ label_calls = [c \in Callers |-> IdleCall]
    /\ nudge_events = {}

\* issues without blockers and without sub-issues
NoDeps ==
    /\ blocked_by = [i \in Issues |-> {}]
    /\ subissues = [i \in Issues |-> {}]

Init ==
    /\ InitStore
    /\ NoDeps
    /\ labels = [i \in Issues |-> {"ag/todo"}]
    /\ threads = [i \in Issues |-> <<>>]

tracker == <<labels, comments, issue_open>>
grid == <<launches, failed_launches>>

\* the record a task continues with when a launch path returns to its caller
Ret(rec) ==
    IF rec.ret = "idle" \/ (rec.ret = "nudges" /\ rec.items = {})
    THEN IdleTask
    ELSE [IdleTask EXCEPT !.pc = rec.ret, !.items = rec.items]

\* enter ManagementLoop._claim_and_launch for issue i
ToClaim(rec, i, kind, mode, rc, meta) ==
    [rec EXCEPT !.pc = "claim", !.kind = kind, !.issue_id = i, !.mode = mode,
                !.retry_count = rc, !.metadata = meta]

\* ManagementLoop._launch_simple / _launch_planner / _launch_unblocked /
\* _launch_review_handler up to the call of _claim_and_launch
\* (label = "" for the paths that make no label transition)
launch_entry(t, rec, i, kind, mode, label) ==
    IF _has_active_execution(i)
    THEN /\ task' = [task EXCEPT ![t] = Ret(rec)]
         /\ UNCHANGED labels
    ELSE /\ labels' = IF label = "" THEN labels
                      ELSE [labels EXCEPT ![i] = transition_to(@, label)]
         /\ task' = [task EXCEPT ![t] = ToClaim(rec, i, kind, mode, 0, NullMeta)]

\* Scheduler._classify_and_act and the body of the loop of run_cycle phase 2+3,
\* after the budget check
classify_and_act(t, rec, i, cat) ==
    /\ issue_state' = [issue_state EXCEPT ![i] =
            upsert_issue_state(@, cat, default_retry_count, NullMeta)]
    /\ CASE cat = "SIMPLE" ->
              /\ launch_entry(t, rec, i, "simple", "implement", "ag/in-progress")
              /\ UNCHANGED comments
         [] cat = "COMPLEX" ->
              /\ launch_entry(t, rec, i, "planner", "plan", "ag/planning")
              /\ UNCHANGED comments
         [] cat = "BLOCKED" ->
              /\ labels' = [labels EXCEPT ![i] = transition_to(@, "ag/blocked")]
              /\ comments' = [comments EXCEPT ![i] = "Agent needs clarification"]
              /\ task' = [task EXCEPT ![t] = Ret(rec)]
         [] cat = "SKIP" ->
              /\ labels' = [labels EXCEPT ![i] = transition_to(@, "ag/skipped")]
              /\ comments' = [comments EXCEPT ![i] = "Skipping automated work"]
              /\ task' = [task EXCEPT ![t] = Ret(rec)]
    /\ UNCHANGED <<executions, nudge_queue, issue_open, grid, lost_claims,
                   next_id, overdue, api, hooks, ext>>

\* ManagementLoop._launch_retry up to the call of _claim_and_launch
_launch_retry(t, rec, i) ==
    LET retry_count == read_retry_count(i) IN
    /\ IF _has_active_execution(i)
       THEN /\ task' = [task EXCEPT ![t] = Ret(rec)]
            /\ UNCHANGED <<labels, comments>>
       ELSE IF retry_count >= max_retries_per_issue
       THEN /\ labels' = [labels EXCEPT ![i] = transition_to(@, "ag/failed")]
            /\ comments' = [comments EXCEPT ![i] = "Max retries"]
            /\ task' = [task EXCEPT ![t] = Ret(rec)]
       ELSE /\ labels' = [labels EXCEPT ![i] = transition_to(@, "ag/in-progress")]
            /\ task' = [task EXCEPT ![t] =
                    ToClaim(rec, i, "retry", "retry_with_feedback",
                            retry_count, NullMeta)]
            /\ UNCHANGED comments
    /\ UNCHANGED <<executions, issue_state, nudge_queue, issue_open, grid,
                   lost_claims, next_id, overdue, api, hooks, ext>>

\* the statements of a handler that follow _claim_and_launch's return
\* (launched = its return value)
after_launch(rec, launched) ==
    CASE rec.kind = "retry" /\ launched ->
            [issue_state EXCEPT ![rec.issue_id] =
                upsert_issue_state(@, "NULL", rec.retry_count + 1, NullMeta)]
      [] rec.kind = "ci" ->
            [issue_state EXCEPT ![rec.issue_id] =
                upsert_issue_state(@, "NULL", default_retry_count, rec.metadata)]
      [] OTHER -> issue_state

\* "Lost claim race for issue ..."
LostClaim(eid, rec) == [eid |-> eid, issue_id |-> rec.issue_id, kind |-> rec.kind]

\* ManagementLoop._claim_and_launch: uuid4() and try_claim_issue
TaskClaim(t) ==
    LET rec == task[t] IN
    /\ rec.pc = "claim"
    /\ next_id <= MaxExec
    /\ next_id' = next_id + 1
    /\ executions' = try_claim_issue(next_id, rec.issue_id)
    /\ IF claim_wins(rec.issue_id)
       THEN /\ task' = [task EXCEPT ![t] = [rec EXCEPT !.pc = "launch", !.eid = next_id]]
            /\ UNCHANGED <<lost_claims, issue_state>>
       ELSE /\ lost_claims' = lost_claims \cup {LostClaim(next_id, rec)}
            /\ issue_state' = after_launch(rec, FALSE)
            /\ task' = [task EXCEPT ![t] = Ret(rec)]
    /\ UNCHANGED <<nudge_queue, tracker, grid, overdue, api, hooks, ext>>

\* an except branch that only logs
launch_failure_logged(eid) == executions

\* ManagementLoop._claim_and_launch, except branch: status FAILED, result
\* "Launch failed: ..."
mark_launch_failed(eid) == update_execution(eid, "failed", "Launch failed")

\* ManagementLoop._claim_and_launch: grid.launch_agent and its except branch
launch_step(t) ==
    LET rec == task[t] IN
    /\ rec.pc = "launch"
    /\ \E ok \in BOOLEAN :
        /\ IF ok
           THEN /\ launches' = launches \cup
                        {[eid |-> rec.eid, issue_id |-> rec.issue_id, mode |-> rec.mode]}
                /\ UNCHANGED <<executions, failed_launches>>
           ELSE /\ executions' = mark_launch_failed(rec.eid)
                /\ failed_launches' = failed_launches \cup {rec.eid}
                /\ UNCHANGED launches
        /\ issue_state' = after_launch(rec, ok)
    /\ task' = [task EXCEPT ![t] = Ret(rec)]
    /\ UNCHANGED <<nudge_queue, tracker, lost_claims, next_id, overdue, api, hooks>>

\* ... with a backend of which the model keeps no state of its own
TaskLaunch(t) == launch_step(t) /\ UNCHANGED ext

\* ------------------------------------------------------ scheduler handlers
PayloadLabels == {{"ag/todo"}, {"ag/todo", "ag/blocked"}}

\* Scheduler._handle_issue_created
SchedIssueCreated(i, pl, cat) ==
    /\ task["sched"].pc = "idle"
    /\ _should_auto_launch(pl)
    /\ ~(\E l \in pl : l \in HANDLED_LABELS)
    /\ can_launch_agent
    /\ classify_and_act("sched",
            [task["sched"] EXCEPT !.seen = Cardinality(AllActive)], i, cat)

\* Scheduler._handle_issue_updated
SchedIssueUpdated(i, pl, cat) ==
    /\ task["sched"].pc = "idle"
    /\ "ag/todo" \in pl
    /\ ~(\E l \in pl : l \in HANDLED_LABELS)
    /\ can_launch_agent
    /\ classify_and_act("sched",
            [task["sched"] EXCEPT !.seen = Cardinality(AllActive)], i, cat)

\* Scheduler._handle_pr_closed
SchedPrClosed(i, merged, found) ==
    /\ task["sched"].pc = "idle"
    /\ IF merged
       THEN /\ labels' = [labels EXCEPT ![i] = transition_to(@, "ag/done")]
            /\ issue_open' = [issue_open EXCEPT ![i] = FALSE]
            /\ UNCHANGED <<executions, issue_state, nudge_queue, comments, grid,
                           lost_claims, next_id, overdue, task, api, hooks, ext>>
       ELSE /\ found
            /\ _launch_retry("sched", task["sched"], i)

\* a handler without the deduplication
ci_never_attempted(metadata, head_sha) == FALSE

\* "Deduplicate: skip if we already processed this SHA"
ci_already_attempted(metadata, head_sha) ==
    head_sha # "" /\ metadata.last_ci_check_sha = head_sha

\* Scheduler._handle_check_run_failed
SchedCheckRunFailed(i, head_sha) ==
    LET metadata == read_metadata(i)
        ci_fix_count == metadata.ci_fix_count
        updated_metadata == [null |-> FALSE, ci_fix_count |-> ci_fix_count + 1,
                             last_ci_check_sha |-> head_sha]
        rec == task["sched"]
    IN
    /\ rec.pc = "idle"
    /\ ~ci_already_attempted(metadata, head_sha)
    /\ IF ci_fix_count >= max_ci_fix_retries
       THEN /\ comments' = [comments EXCEPT ![i] = "CI keeps failing"]
            /\ labels' = [labels EXCEPT ![i] = transition_to(@, "ag/failed")]
            /\ UNCHANGED <<issue_state, task>>
       ELSE IF _has_active_execution(i)
       THEN \* _launch_ci_fix returns False; the metadata is written all the same
            /\ issue_state' = [issue_state EXCEPT ![i] =
                    upsert_issue_state(@, "NULL", default_retry_count, updated_metadata)]
            /\ UNCHANGED <<labels, comments, task>>
       ELSE /\ task' = [task EXCEPT !["sched"] =
                    ToClaim(rec, i, "ci", "fix_ci", 0, updated_metadata)]
            /\ UNCHANGED <<labels, comments, issue_state>>
    /\ UNCHANGED <<executions, nudge_queue, issue_open, grid, lost_claims,
                   next_id, overdue, api, hooks, ext>>

\* Scheduler._try_launch_agent up to grid.launch_agent: budget check, active
\* check, launch (the id is the grid's uuid4()); FALSE when it returns None
try_launch_guard(i) == can_launch_agent /\ ~_has_active_execution(i)

\* Scheduler._handle_nudge_requested (repo given in the payload)
nudge_requested(i) ==
    LET rec == task["sched"] IN
    /\ rec.pc = "idle"
    /\ try_launch_guard(i)
    /\ next_id <= MaxExec
    /\ next_id' = next_id + 1
    /\ \E ok \in BOOLEAN :
        IF ok
        THEN /\ launches' = launches \cup
                    {[eid |-> next_id, issue_id |-> i, mode |-> "implement"]}
             /\ task' = [task EXCEPT !["sched"] =
                    [rec EXCEPT !.pc = "try_claim", !.kind = "nudge",
                                !.issue_id = i, !.mode = "implement",
                                !.eid = next_id,
                                !.seen = Cardinality(AllActive)]]
             /\ UNCHANGED failed_launches
        ELSE \* launch_agent raises: the handler ends with the exception
             /\ failed_launches' = failed_launches \cup {next_id}
             /\ UNCHANGED <<launches, task>>
    /\ UNCHANGED <<executions, issue_state, nudge_queue, tracker,
                   lost_claims, overdue, api, hooks>>

\* ... for a NUDGE_REQUESTED event of any origin
SchedNudgeRequested(i) == nudge_requested(i) /\ UNCHANGED ext

\* ... for the NUDGE_REQUESTED event that handle_nudge published with the
\* nudge of issue i; when _try_launch_agent declines, the event is spent too
SchedNudgeEvent(i) ==
    /\ i \in nudge_events
    /\ task["sched"].pc = "idle"
    /\ nudge_events' = nudge_events \ {i}
    /\ IF try_launch_guard(i)
       THEN nudge_requested(i)
       ELSE UNCHANGED <<core, hooks>>
    /\ UNCHANGED <<cancelled, label_calls, ozgrid, job, sweeps, ebus>>

\* Scheduler._try_launch_agent: try_claim_issue after the launch, and
\* mark_processed in _process_pending_nudges
SchedTryClaim ==
    LET rec == task["sched"] IN
    /\ rec.pc = "try_claim"
    /\ executions' = try_claim_issue(rec.eid, rec.issue_id)
    /\ IF claim_wins(rec.issue_id)
       THEN /\ nudge_queue' = IF rec.ret = "nudges"
                              THEN nudge_queue \ {rec.issue_id} ELSE nudge_queue
            /\ UNCHANGED lost_claims
       ELSE /\ lost_claims' = lost_claims \cup {LostClaim(rec.eid, rec)}
            /\ UNCHANGED nudge_queue
    /\ task' = [task EXCEPT !["sched"] = Ret(rec)]
    /\ UNCHANGED <<issue_state, tracker, grid, next_id, overdue, api, hooks, ext>>

\* the compute backend reports on the runs it was asked to launch
Launched == {l.eid : l \in launches}

\* Scheduler._process_pending_nudges: get_pending_nudges
PendingNudges == [IdleTask EXCEPT !.pc = "nudges", !.items = nudge_queue,
                                  !.ret = "nudges"]

\* Scheduler._handle_agent_completed / _handle_agent_failed
\* (checkpoint = "NULL": the payload has none, and for AGENT_FAILED)
agent_event(e, status, result, label, checkpoint) ==
    /\ task["sched"].pc = "idle"
    /\ executions' =
            IF checkpoint # "NULL" /\ e \in RowIds
            THEN save_checkpoint(update_execution(e, status, result), e, checkpoint)
            ELSE update_execution(e, status, result)
    /\ labels' = IF e \in RowIds
                 THEN [labels EXCEPT ![executions[e].issue_id] = transition_to(@, label)]
                 ELSE labels
    /\ task' = [task EXCEPT !["sched"] = Ret(PendingNudges)]
    /\ UNCHANGED <<issue_state, nudge_queue, comments, issue_open, grid,
                   lost_claims, next_id, overdue, api, hooks>>

\* ... for an event of a run the backend reports on
agent_finished(e, status, result, label, checkpoint) ==
    /\ e \in Launched
    /\ agent_event(e, status, result, label, checkpoint)
    /\ UNCHANGED ext

SchedAgentCompleted(e, checkpoint) ==
    agent_finished(e, "completed", "ok", "ag/review-pending", checkpoint)

SchedAgentFailed(e) == agent_finished(e, "failed", "error", "ag/failed", "NULL")

\* Scheduler._handle_agent_failed for the AGENT_FAILED event that the backend's
\* cancel_execution published: execution.result = payload.get("error")
SchedAgentCancelled(e) ==
    /\ e \in cancelled
    /\ agent_event(e, "failed", "Cancelled", "ag/failed", "NULL")
    /\ cancelled' = cancelled \ {e}
    /\ UNCHANGED <<job, sweeps, ebus, ozgrid, label_calls, nudge_events>>

\* Scheduler._process_pending_nudges: one nudge of the loop
SchedNudgeNext(i) ==
    LET rec == task["sched"]
        rest == [rec EXCEPT !.items = rec.items \ {i}]
    IN
    /\ rec.pc = "nudges"
    /\ i \in rec.items
    /\ IF try_launch_guard(i)
       THEN /\ next_id <= MaxExec
            /\ next_id' = next_id + 1
            /\ \E ok \in BOOLEAN :
                IF ok
                THEN /\ launches' = launches \cup
                            {[eid |-> next_id, issue_id |-> i, mode |-> "implement"]}
                     /\ task' = [task EXCEPT !["sched"] =
                            [rest EXCEPT !.pc = "try_claim", !.kind = "nudge",
                                         !.issue_id = i, !.mode = "implement",
                                         !.eid = next_id,
                                         !.seen = Cardinality(AllActive)]]
                     /\ UNCHANGED failed_launches
                ELSE \* launch_agent raises: the handler ends with the exception
                     /\ failed_launches' = failed_launches \cup {next_id}
                     /\ task' = [task EXCEPT !["sched"] = IdleTask]
                     /\ UNCHANGED launches
       ELSE /\ task' = [task EXCEPT !["sched"] = Ret(rest)]
            /\ UNCHANGED <<launches, failed_launches, next_id>>
    /\ UNCHANGED <<executions, issue_state, nudge_queue, tracker,
                   lost_claims, overdue, api, hooks, ext>>

\* ----------------------------------------------------------- HTTP endpoints
\* POST /api/nudge (NudgeHandler.handle_nudge: create_nudge and the publish of
\* NUDGE_REQUESTED), with the id of
\* an existing execution as source_execution_id
ApiNudge(i) ==
    /\ RowIds # {}
    /\ i \notin nudge_queue
    /\ nudge_queue' = nudge_queue \cup {i}
    /\ nudge_events' = nudge_events \cup {i}
    /\ UNCHANGED <<executions, issue_state, tracker, grid, lost_claims,
                   next_id, overdue, task, api, hooks, cancelled, label_calls,
                   ozgrid, job, sweeps, ebus>>

\* POST /api/executions/{id}/cancel: get_execution and the status check
ApiCancelRead(e) ==
    /\ api.pc = "idle"
    /\ e \in RowIds
    /\ executions[e].status \in ACTIVE
    /\ api' = [pc |-> "cancel", eid |-> e]
    /\ UNCHANGED <<executions, issue_state, nudge_queue, tracker, grid,
                   lost_claims, next_id, overdue, task, hooks, ext>>

\* ExecutionGrid.cancel_execution as the endpoint sees it: the backend knows
\* the run, stops it, publishes AGENT_FAILED with error "Cancelled" and returns
\* True; it does not know the run and returns False; or the call raises
CancelOutcomes == {"cancelled", "not_found", "raised"}

\* ... try: grid.cancel_execution, except Exception: pass; then
\* update_execution with status failed and result "Manually cancelled"
ApiCancelWrite(outcome) ==
    /\ api.pc = "cancel"
    /\ outcome = "cancelled" => api.eid \in Launched
    /\ cancelled' = IF outcome = "cancelled"
                    THEN cancelled \cup {api.eid}
                    ELSE cancelled
    /\ executions' = update_execution(api.eid, "failed", "Manually cancelled")
    /\ api' = IdleApi
    /\ UNCHANGED <<issue_state, nudge_queue, tracker, grid, lost_claims,
                   next_id, overdue, task, hooks, job, sweeps, ebus,
                   ozgrid, label_calls, nudge_events>>

\* --------------------------------------------------------- management loop
\* Scanner.scan
scan == {i \in Issues : /\ issue_open[i]
                        /\ \E l \in labels[i] : ag_prefixed(l)
                        /\ ~(\E l \in labels[i] : l \in HANDLED_LABELS)}

Phase(rec, pc, items) == [IdleTask EXCEPT !.pc = pc, !.items = items, !.ret = pc]

\* run_cycle phase 1
LoopScan ==
    /\ task["loop"].pc = "idle"
    /\ task' = [task EXCEPT !["loop"] = Phase(@, "classify", scan)]
    /\ UNCHANGED <<executions, issue_state, nudge_queue, tracker, grid,
                   lost_claims, next_id, overdue, api, hooks, ext>>

\* run_cycle phase 2+3, one candidate
LoopClassify(i, cat) ==
    LET rec == task["loop"] IN
    /\ rec.pc = "classify"
    /\ i \in rec.items
    /\ IF can_launch_agent
       THEN classify_and_act("loop",
                [rec EXCEPT !.items = rec.items \ {i},
                            !.seen = Cardinality(AllActive)], i, cat)
       ELSE \* break
            /\ task' = [task EXCEPT !["loop"] = Phase(rec, "classify", {})]
            /\ UNCHANGED <<executions, issue_state, nudge_queue, tracker, grid,
                           lost_claims, next_id, overdue, api, hooks, ext>>

\* run_cycle phase 4, _check_in_progress: the two list_executions reads
\* (due: the pending or running executions that are timed out at the reads)
LoopSweepRead ==
    /\ task["loop"].pc = "classify"
    /\ task["loop"].items = {}
    /\ task' = [task EXCEPT !["loop"] =
            [Phase(@, "sweep", list_executions("running", list_limit)
                               \cup list_executions("pending", list_limit))
                EXCEPT !.due = AllActive \cap overdue]]
    /\ UNCHANGED <<executions, issue_state, nudge_queue, tracker, grid,
                   lost_claims, next_id, overdue, api, hooks, ext>>

\* elapsed > settings.execution_timeout_seconds
timed_out(e) == e \in overdue

\* _check_in_progress: one execution of the for loop (ORDER BY created_at DESC)
LoopSweepStep ==
    LET rec == task["loop"] IN
    /\ rec.pc = "sweep"
    /\ rec.items # {}
    /\ LET e == CHOOSE x \in rec.items :
                    \A y \in rec.items : executions[y].created_at <= executions[x].created_at
       IN /\ executions' = IF timed_out(e)
                           THEN update_execution(e, "failed", "Timed out")
                           ELSE executions
          /\ task' = [task EXCEPT !["loop"] =
                [Phase(rec, "sweep", rec.items \ {e}) EXCEPT !.due = rec.due]]
    /\ UNCHANGED <<issue_state, nudge_queue, tracker, grid, lost_claims,
                   next_id, overdue, api, hooks, ext>>

\* run_cycle phase 5: PRMonitor.check_prs reports the PRs needing work
LoopCheckPrs(S) ==
    /\ task["loop"].pc = "sweep"
    /\ task["loop"].items = {}
    /\ task' = [task EXCEPT !["loop"] = Phase(@, "reviews", S)]
    /\ UNCHANGED <<executions, issue_state, nudge_queue, tracker, grid,
                   lost_claims, next_id, overdue, api, hooks, ext>>

\* ManagementLoop._launch_review_handler
LoopReview(i) ==
    LET rec == task["loop"] IN
    /\ rec.pc = "reviews"
    /\ i \in rec.items
    /\ launch_entry("loop", [rec EXCEPT !.items = rec.items \ {i}], i,
                    "review", "address_review", "")
    /\ UNCHANGED <<executions, issue_state, nudge_queue, comments, issue_open,
                   grid, lost_claims, next_id, overdue, api, hooks, ext>>

\* run_cycle phase 6: PRMonitor.check_closed_prs
LoopCheckClosedPrs(S) ==
    /\ task["loop"].pc = "reviews"
    /\ task["loop"].items = {}
    /\ task' = [task EXCEPT !["loop"] = Phase(@, "closed", S)]
    /\ UNCHANGED <<executions, issue_state, nudge_queue, tracker, grid,
                   lost_claims, next_id, overdue, api, hooks, ext>>

LoopRetry(i) ==
    LET rec == task["loop"] IN
    /\ rec.pc = "closed"
    /\ i \in rec.items
    /\ _launch_retry("loop", [rec EXCEPT !.items = rec.items \ {i}], i)

\* run_cycle phase 7: BlockerResolver.check_blocked_issues
LoopCheckBlocked(S) ==
    /\ task["loop"].pc = "closed"
    /\ task["loop"].items = {}
    /\ \A i \in S : "ag/blocked" \in labels[i]
    /\ task' = [task EXCEPT !["loop"] = Phase(@, "unblocked", S)]
    /\ UNCHANGED <<executions, issue_state, nudge_queue, tracker, grid,
                   lost_claims, next_id, overdue, api, hooks, ext>>

\* ManagementLoop._launch_unblocked
LoopUnblocked(i) ==
    LET rec == task["loop"] IN
    /\ rec.pc = "unblocked"
    /\ i \in rec.items
    /\ launch_entry("loop", [rec EXCEPT !.items = rec.items \ {i}], i,
                    "unblocked", "implement", "ag/in-progress")
    /\ UNCHANGED <<executions, issue_state, nudge_queue, comments, issue_open,
                   grid, lost_claims, next_id, overdue, api, hooks, ext>>

\* end of run_cycle
LoopCycleDone ==
    /\ task["loop"].pc = "unblocked"
    /\ task["loop"].items = {}
    /\ task' = [task EXCEPT !["loop"] = IdleTask]
    /\ UNCHANGED <<executions, issue_state, nudge_queue, tracker, grid,
                   lost_claims, next_id, overdue, api, hooks, ext>>

\* LabelManager.transition_to called for issue i
LabelTransition(i, new_label) ==
    /\ labels' = [labels EXCEPT ![i] = transition_to(@, new_label)]
    /\ UNCHANGED <<executions, issue_state, nudge_queue, comments, issue_open,
                   grid, lost_claims, next_id, overdue, task, api, hooks, ext>>

\* time passes: the execution e, and every execution created before it, is
\* now older than execution_timeout_seconds
Tick(e) ==
    /\ e \in RowIds
    /\ e \notin overdue
    /\ overdue' = overdue \cup
            {x \in RowIds : executions[x].created_at <= executions[e].created_at}
    /\ UNCHANGED <<executions, issue_state, nudge_queue, tracker, grid,
                   lost_claims, next_id, task, api, hooks, ext>>

\* ---------------------------------------------------------- webhook ingress
Published(type, i, action, ls, by, hook) ==
    [type |-> type, issue_id |-> i, action |-> action, labels |-> ls,
     by |-> by, hook |-> hook]

\* issue_tracker.webhook_handler._handle_issue_event and
\* _handle_issue_comment_event: the events the handler publishes
ingress_events(d, k, i) ==
    IF i = 0 THEN <<>>
    ELSE IF k.event_type = "issues"
    THEN IF k.action = "opened"
         THEN <<Published("ISSUE_CREATED", i, "none", k.labels, "ingress", d)>>
         ELSE <<Published("ISSUE_UPDATED", i, k.action, k.labels, "ingress", d)>>
    ELSE IF k.action # "created" THEN <<>>
    ELSE IF k.nudge
    THEN <<Published("NUDGE_REQUESTED", i, "none", {}, "ingress", d)>>
    ELSE IF \E l \in k.labels : ag_prefixed(l)
    THEN <<Published("ISSUE_COMMENT", i, "none", k.labels, "ingress", d)>>
    ELSE <<>>

\* POST /webhooks/github (handle_github_webhook) with a valid signature and a
\* JSON body; d is the X-GitHub-Delivery header, which the handler does not read
IngressDeliver(d, k, i) ==
    /\ Len(responses) < MaxHooks
    /\ bus' = bus \o ingress_events(d, k, i)
    /\ responses' = Append(responses, [delivery_id |-> d, status |-> "ok"])
    /\ UNCHANGED <<executions, issue_state, nudge_queue, tracker, grid,
                   lost_claims, next_id, overdue, task, api, ext,
                   webhook_events, now, proc>>

\* ------------------------------------------------------------ inbox (store)
InboxIds == {h \in HookIds : webhook_events[h].delivery_id # 0}

\* Database.create_webhook_event: false on a duplicate delivery_id (unique
\* index idx_webhook_events_delivery_id)
create_webhook_event_ok(d) == \A h \in InboxIds : webhook_events[h].delivery_id # d

create_webhook_event(d, k, i) ==
    IF create_webhook_event_ok(d)
    THEN [webhook_events EXCEPT ![Cardinality(InboxIds) + 1] =
            [delivery_id |-> d, event_type |-> k.event_type, action |-> k.action,
             issue_id |-> i, has_labels |-> k.has_labels, labels |-> k.labels,
             nudge |-> k.nudge, processed |-> FALSE, coalesced_into |-> 0,
             received_at |-> now]]
    ELSE webhook_events

\* Database.get_unprocessed_webhook_events(older_than, limit): the reads it
\* may return
get_unprocessed_webhook_events(older_than, limit) ==
    LET rows == {h \in InboxIds : /\ ~webhook_events[h].processed
                                  /\ webhook_events[h].received_at < older_than}
        n == IF Cardinality(rows) < limit THEN Cardinality(rows) ELSE limit
    IN  {S \in SUBSET rows : Cardinality(S) = n}

\* Database.mark_webhook_events_processed(ids, coalesced_into)
mark_webhook_events_processed(ids, coalesced_into) ==
    [h \in HookIds |->
        IF h \in ids
        THEN [webhook_events[h] EXCEPT !.processed = TRUE,
                                       !.coalesced_into = coalesced_into]
        ELSE webhook_events[h]]

\* a webhook event is persisted in the inbox, received_at = NOW()
InboxReceive(d, k, i) ==
    /\ Cardinality(InboxIds) < MaxHooks
    /\ now + quiet_period < MaxTime
    /\ create_webhook_event_ok(d)
    /\ webhook_events' = create_webhook_event(d, k, i)
    /\ UNCHANGED <<executions, issue_state, nudge_queue, tracker, grid,
                   lost_claims, next_id, overdue, task, api, ext,
                   bus, responses, now, proc>>

\* ------------------------------------------------------- webhook processor
\* the actions of a group's events
ActionsOf(S) == {webhook_events[h].action : h \in S}

\* the group's last event taken as its primary
last_event(S) == CHOOSE h \in S : \A g \in S : g <= h

\* sorted(events, key=lambda e: e.received_at)[0]: rows are inserted in the
\* order of their received_at, so the first is the one with the least id
primary_event(S) == CHOOSE h \in S : \A g \in S : h <= g

\* "Collect all labels from the most recent event that has them"
final_labels(S) ==
    LET with == {h \in S : webhook_events[h].has_labels}
    IN  IF with = {} THEN {}
        ELSE webhook_events[CHOOSE h \in with : \A g \in with : g <= h].labels

trigger_labels == {"agent", "automated", "agent-grid"}
has_trigger_label(ls) == ls \cap trigger_labels # {}

ProcessingDecision(should_trigger, event_type, reason, ls) ==
    [should_trigger |-> should_trigger, event_type |-> event_type,
     reason |-> reason, labels |-> ls]

\* WebhookProcessor._analyze_event_sequence
_analyze_event_sequence(S) ==
    LET actions == ActionsOf(S)
        has_opened == "opened" \in actions
        has_labeled == "labeled" \in actions
        ls == final_labels(S)
    IN  IF "closed" \in actions
        THEN ProcessingDecision(FALSE, "none", "issue was closed", {})
        ELSE IF \E h \in S : /\ webhook_events[h].event_type = "issue_comment"
                             /\ webhook_events[h].action = "created"
                             /\ webhook_events[h].nudge
        THEN ProcessingDecision(TRUE, "NUDGE_REQUESTED", "nudge command in comment", {})
        ELSE IF has_opened /\ has_trigger_label(ls)
        THEN ProcessingDecision(TRUE, "ISSUE_CREATED", "issue opened with trigger label", ls)
        ELSE IF has_opened
        THEN ProcessingDecision(FALSE, "none", "issue opened without trigger label", {})
        ELSE IF has_labeled /\ has_trigger_label(ls)
        THEN ProcessingDecision(TRUE, "ISSUE_UPDATED", "trigger label added", ls)
        ELSE ProcessingDecision(FALSE, "none", "no actionable events", {})

\* WebhookProcessor._publish_coalesced_event
_publish_coalesced_event(primary, decision) ==
    Published(decision.event_type, webhook_events[primary].issue_id,
              IF decision.event_type = "ISSUE_UPDATED" THEN "labeled" ELSE "none",
              decision.labels, "processor", webhook_events[primary].delivery_id)

\* a processor that marks only the groups it published
ids_of_published(S, decision) == IF decision.should_trigger THEN S ELSE {}

\* _process_issue_events: event_ids = [e.id for e in events]
event_ids(S, decision) == S

\* WebhookProcessor._process_batch: the read and the grouping
ProcBatch ==
    /\ proc.pc = "sleep"
    /\ \E S \in get_unprocessed_webhook_events(now - quiet_period, batch_limit) :
        /\ S # {}
        /\ proc' = [pc |-> "batch", batch |-> S]
    /\ UNCHANGED <<executions, issue_state, nudge_queue, tracker, grid,
                   lost_claims, next_id, overdue, task, api, ext,
                   webhook_events, bus, responses, now>>

\* the events of the batch with the key (repo, issue_id)
GroupOf(i) == {h \in proc.batch : webhook_events[h].issue_id = i}

\* WebhookProcessor._process_issue_events for one group of the batch; after
\* the last group the loop sleeps
ProcGroup(i) ==
    LET events == GroupOf(i)
        primary == primary_event(events)
        decision == _analyze_event_sequence(events)
        rest == proc.batch \ events
    IN
    /\ proc.pc = "batch"
    /\ events # {}
    /\ bus' = IF decision.should_trigger
              THEN Append(bus, _publish_coalesced_event(primary, decision))
              ELSE bus
    /\ webhook_events' = mark_webhook_events_processed(
            event_ids(events, decision),
            IF Cardinality(events) > 1 THEN primary ELSE 0)
    /\ proc' = IF rest = {} THEN IdleProc ELSE [pc |-> "batch", batch |-> rest]
    /\ UNCHANGED <<executions, issue_state, nudge_queue, tracker, grid,
                   lost_claims, next_id, overdue, task, api, ext, responses, now>>

\* time passes
Advance ==
    /\ now < MaxTime
    /\ now' = now + 1
    /\ UNCHANGED <<executions, issue_state, nudge_queue, tracker, grid,
                   lost_claims, next_id, overdue, task, api, ext,
                   webhook_events, bus, responses, proc>>

\* ------------------------------------------------------- PR review sweep
\* a human submits a review (CHANGES_REQUESTED or COMMENTED, with a body) on
\* the open PR that an agent of issue i has made; submitted_at is the clock
ReviewSubmitted(i) ==
    /\ \E e \in RowIds : executions[e].issue_id = i /\ executions[e].status = "completed"
    /\ reviews' = reviews \cup {[issue_id |-> i, submitted_at |-> now]}
    /\ UNCHANGED <<core, hooks, cancelled, label_calls, nudge_events, ozgrid, ebus, job, last_pr_check, threads, fetched, deps>>

\* PRMonitor.check_prs: not last_check or review["submitted_at"] > last_check.
\* Both are ISO strings compared as strings: submitted_at has whole seconds
\* and ends in "Z", the cursor is datetime.utcnow().isoformat(); within the
\* same second the review's string is the greater one
is_new(r, last_check) == last_check = NoCheck \/ r.submitted_at >= last_check

\* PRMonitor.check_prs up to its last await: reads the cursor, fetches the
\* open PRs and their reviews, collects the PRs with new reviews
LoopFetchReviews ==
    /\ task["loop"].pc = "sweep"
    /\ task["loop"].items = {}
    /\ task' = [task EXCEPT !["loop"] =
            Phase(@, "prs", {r.issue_id : r \in {x \in reviews : is_new(x, last_pr_check)}})]
    /\ UNCHANGED <<executions, issue_state, nudge_queue, tracker, grid,
                   lost_claims, next_id, overdue, api, hooks, ext>>

\* PRMonitor.check_prs: set_cron_state("last_pr_check", utcnow()) and return
LoopAdvanceCursor ==
    /\ task["loop"].pc = "prs"
    /\ last_pr_check' = now
    /\ task' = [task EXCEPT !["loop"] = Phase(@, "reviews", @.items)]
    /\ UNCHANGED <<executions, issue_state, nudge_queue, tracker, grid,
                   lost_claims, next_id, overdue, api, hooks, cancelled, label_calls, nudge_events, ozgrid, ebus, job,
                   reviews,
                   threads, fetched, deps>>

\* ------------------------------------------------------- unblocked sweep
\* a comment as the sweep reads it: meta is the type of the metadata marker
\* in its body ("none": extract_metadata returns None), author_type and
\* author are GitHub's user.type and login
Comment(meta, author_type, author) ==
    [meta |-> meta, author_type |-> author_type, author |-> author]

CommentKinds ==
    { Comment("blocked", "Bot", "agent-grid[bot]"),
      Comment("reminder", "Bot", "agent-grid[bot]"),
      Comment("none", "Bot", "ci-app"),
      Comment("none", "User", "dependabot[bot]"),
      Comment("none", "User", "alice") }

\* comment.author.endswith("[bot]")
ends_with_bot(author) == author \in {"agent-grid[bot]", "dependabot[bot]"}

\* the index of the last comment whose metadata has type blocked; 0: None
last_block_idx(cs) ==
    LET blocks == {k \in 1..Len(cs) : cs[k].meta = "blocked"}
    IN  IF blocks = {} THEN 0 ELSE CHOOSE k \in blocks : \A b \in blocks : b <= k

\* a variant that takes every comment without metadata for a human reply
has_unmarked_reply_after_block(cs) ==
    /\ last_block_idx(cs) # 0
    /\ \E k \in (last_block_idx(cs) + 1)..Len(cs) : cs[k].meta = "none"

\* BlockerResolver._has_human_reply_after_block
_has_human_reply_after_block(cs) ==
    /\ last_block_idx(cs) # 0
    /\ \E k \in (last_block_idx(cs) + 1)..Len(cs) :
            /\ cs[k].meta = "none"
            /\ cs[k].author_type # "Bot"
            /\ ~ends_with_bot(cs[k].author)

\* ManagementLoop._launch_unblocked: the clarification_comments of the prompt
clarification_comments(cs) ==
    IF last_block_idx(cs) = 0 THEN <<>>
    ELSE LET unmarked(c) == c.meta = "none"
         IN  SelectSeq(SubSeq(cs, last_block_idx(cs) + 1, Len(cs)), unmarked)

\* somebody (the agent, an app or a person) comments on issue i
CommentPosted(i, c) ==
    /\ Len(threads[i]) < MaxComments
    /\ threads' = [threads EXCEPT ![i] = Append(@, c)]
    /\ UNCHANGED <<core, hooks, cancelled, label_calls, nudge_events, ozgrid, ebus, job, reviews, last_pr_check, fetched, deps>>

\* run_cycle phase 7: BlockerResolver.check_blocked_issues lists the
\* ag/blocked issues, fetches each with its comments and returns those with
\* a human reply
LoopCheckBlockedIssues ==
    LET unblocked == {i \in Issues : /\ issue_open[i]
                                     /\ "ag/blocked" \in labels[i]
                                     /\ _has_human_reply_after_block(threads[i])}
    IN  /\ task["loop"].pc = "closed"
        /\ task["loop"].items = {}
        /\ task' = [task EXCEPT !["loop"] = Phase(@, "unblocked", unblocked)]
        /\ fetched' = [i \in Issues |-> IF i \in unblocked THEN threads[i] ELSE fetched[i]]
        /\ UNCHANGED <<executions, issue_state, nudge_queue, tracker, grid,
                       lost_claims, next_id, overdue, api, hooks, cancelled, label_calls, nudge_events, ozgrid, ebus, job,
                   reviews,
                       last_pr_check, threads, deps>>

\* ------------------------------------------------------ dependency sweep
\* an issue is closed in the tracker (its PR is merged, or by a person)
IssueClosed(i) ==
    /\ issue_open[i]
    /\ issue_open' = [issue_open EXCEPT ![i] = FALSE]
    /\ UNCHANGED <<executions, issue_state, nudge_queue, labels, comments, grid,
                   lost_claims, next_id, overdue, task, api, hooks, ext>>

\* DependencyResolver.check_dependencies, the body of its loop for one issue
\* that list_issues(labels=["ag/waiting"]) returned; unfetchable: the blockers
\* for which get_issue raises
all_deps_resolved(i, unfetchable) ==
    \A b \in blocked_by[i] : b \notin unfetchable /\ ~issue_open[b]

CheckDependencies(i, unfetchable) ==
    /\ "ag/waiting" \in labels[i]
    /\ labels' = IF all_deps_resolved(i, unfetchable)
                 THEN [labels EXCEPT ![i] = @ \ {"ag/waiting"}]
                 ELSE labels
    /\ UNCHANGED <<executions, issue_state, nudge_queue, comments, issue_open,
                   grid, lost_claims, next_id, overdue, task, api, hooks, ext>>

\* DependencyResolver.check_parent_completion, the body of its loop for one
\* issue that list_issues(labels=["ag/epic"]) returned
failed_subs(p) == {s \in subissues[p] : "ag/failed" \in labels[s]}
pending_subs(p) == {s \in subissues[p] : issue_open[s] /\ "ag/failed" \notin labels[s]}

CheckParentCompletion(p) ==
    /\ "ag/epic" \in labels[p]
    /\ IF ~issue_open[p] \/ subissues[p] = {} \/ pending_subs(p) # {}
       THEN UNCHANGED <<labels, comments, issue_open>>
       ELSE IF failed_subs(p) # {}
       THEN /\ comments' = [comments EXCEPT ![p] = "Some sub-tasks failed"]
            /\ labels' = [labels EXCEPT ![p] = transition_to(@, "ag/failed")]
            /\ UNCHANGED issue_open
       ELSE /\ comments' = [comments EXCEPT ![p] = "All sub-tasks completed"]
            /\ issue_open' = [issue_open EXCEPT ![p] = FALSE]
            /\ labels' = [labels EXCEPT ![p] = transition_to(@, "ag/done")]
    /\ UNCHANGED <<executions, issue_state, nudge_queue, grid, lost_claims,
                   next_id, overdue, task, api, hooks, ext>>

\* -------------------------------------------------------------- event bus
\* a put that never refuses
put_unbounded(q, event) == Append(q, event)

\* asyncio.Queue.put_nowait: raises QueueFull when the queue holds maxsize
\* items; publish catches it and logs.  The queue that results
put_nowait(q, event) == IF Len(q) >= max_size THEN q ELSE Append(q, event)

\* EventBus.publish
Publish(type) ==
    LET event == [id |-> published + 1, type |-> type] IN
    /\ published < MaxPublish
    /\ published' = published + 1
    /\ queue' = put_nowait(queue, event)
    /\ dropped' = IF Len(queue) >= max_size THEN dropped \cup {event.id} ELSE dropped
    /\ UNCHANGED <<core, hooks, cancelled, label_calls, nudge_events, ozgrid, job, sweeps, consumer, handed, raised>>

\* a get that returns the newest item
get_last(q) == [event |-> q[Len(q)], rest |-> SubSeq(q, 1, Len(q) - 1)]

\* asyncio.Queue.get on a queue that is not empty (FIFO)
queue_get(q) == [event |-> Head(q), rest |-> Tail(q)]

\* EventBus._consume_loop: event = await wait_for(self._queue.get(), ...)
ConsumeGet ==
    /\ consumer.pc = "get"
    /\ queue # <<>>
    /\ queue' = queue_get(queue).rest
    /\ consumer' = [pc |-> "dispatch", event |-> queue_get(queue).event]
    /\ UNCHANGED <<core, hooks, cancelled, label_calls, nudge_events, ozgrid, job, sweeps, handed, published, dropped, raised>>

\* EventBus._dispatch: the handlers of the event's type, then those of None
matching(type) ==
    LET of(key) == SelectSeq(Subscriptions, LAMBDA sub : sub.key = key)
        names(subs) == [k \in 1..Len(subs) |-> subs[k].handler]
    IN  names(of(type)) \o names(of("None"))

\* a dispatch that awaits the handlers one by one and stops at the first
\* that raises: the handlers it calls
called_until_raise(handlers, raising) ==
    LET firsts == {k \in 1..Len(handlers) : handlers[k] \in raising}
    IN  IF firsts = {} THEN handlers
        ELSE SubSeq(handlers, 1, CHOOSE k \in firsts : \A j \in firsts : k <= j)

\* asyncio.gather(*[handler(event) ...], return_exceptions=True): the
\* handlers that are called (raising: those whose call raises)
called(handlers, raising) == handlers

\* EventBus._consume_loop: await self._dispatch(event), errors logged, then
\* task_done() and the next get
Dispatch(raising) ==
    LET event == consumer.event
        hs == called(matching(event.type), raising)
        calls(h) == Cardinality({k \in 1..Len(hs) : hs[k] = h})
    IN  /\ consumer.pc = "dispatch"
        /\ handed' = [h \in Handlers |->
                        IF calls(h) > 0 THEN Append(handed[h], event) ELSE handed[h]]
        /\ raised' = raised \cup {<<event.id, hs[k]>> : k \in {j \in 1..Len(hs) : hs[j] \in raising}}
        /\ consumer' = IdleConsumer
        /\ UNCHANGED <<core, hooks, cancelled, label_calls, nudge_events, ozgrid, job, sweeps, queue, published, dropped>>

\* lifespan's shutdown: await event_bus.stop(), which cancels the consumer task
\* wherever it stands and awaits it; wait_until_empty is not called.  A
\* dispatch in progress is cancelled (began: its handlers had been entered)
BusStop(began) ==
    LET event == consumer.event
        hs == matching(event.type)
    IN  /\ consumer.pc \in {"get", "dispatch"}
        /\ consumer' = [IdleConsumer EXCEPT !.pc = "stopped"]
        /\ handed' = [h \in Handlers |->
                        IF consumer.pc = "dispatch" /\ began
                           /\ \E k \in 1..Len(hs) : hs[k] = h
                        THEN Append(handed[h], event)
                        ELSE handed[h]]
        /\ UNCHANGED <<core, hooks, cancelled, label_calls, nudge_events, ozgrid, job, sweeps, queue, published,
                       dropped, raised>>

\* ------------------------------------------------------ run_cycle's phases
\* run_cycle is entered (by _loop or by run_once)
EnterCycle(rec) == [rec EXCEPT !.pc = "cycle", !.phase = 1, !.ran = {},
                               !.caught = {}, !.raised = "none", !.n = @ + 1]

\* ManagementLoop._loop: while self._running: await self.run_cycle()
LoopCycleStart ==
    /\ runs["loop"].pc = "idle"
    /\ runs["loop"].n < MaxCycles
    /\ runs' = [runs EXCEPT !["loop"] = EnterCycle(@)]
    /\ UNCHANGED <<core, hooks, cancelled, label_calls, nudge_events, ozgrid, ebus, lock, sweeps>>

\* run_cycle: the phase that is next returns; caught: after its own except
\* clause caught a failing request
PhaseReturns(r, caught) ==
    LET rec == runs[r] IN
    /\ rec.pc = "cycle"
    /\ caught => Phases[rec.phase] \in Catching
    /\ runs' = [runs EXCEPT ![r] =
            [rec EXCEPT !.ran = @ \cup {Phases[rec.phase]},
                        !.caught = IF caught THEN @ \cup {Phases[rec.phase]} ELSE @,
                        !.phase = @ + 1,
                        !.pc = IF rec.phase = Len(Phases) THEN "returned" ELSE "cycle"]]
    /\ UNCHANGED <<core, hooks, cancelled, label_calls, nudge_events, ozgrid, ebus, lock, sweeps>>

\* run_cycle: an await of the phase that is next raises (a tracker request
\* or a database statement outside the phase's own try blocks); run_cycle has
\* no try statement, the exception leaves it
PhaseRaises(r) ==
    LET rec == runs[r] IN
    /\ rec.pc = "cycle"
    /\ runs' = [runs EXCEPT ![r] =
            [rec EXCEPT !.raised = Phases[rec.phase], !.pc = "raised"]]
    /\ UNCHANGED <<core, hooks, cancelled, label_calls, nudge_events, ozgrid, ebus, lock, sweeps>>

\* ManagementLoop._loop: except Exception: logger.exception(...); then
\* asyncio.sleep(self._interval)
LoopSleep ==
    /\ runs["loop"].pc \in {"returned", "raised"}
    /\ runs' = [runs EXCEPT !["loop"].pc = "idle"]
    /\ UNCHANGED <<core, hooks, cancelled, label_calls, nudge_events, ozgrid, ebus, lock, sweeps>>

\* ------------------------------------------- the standalone job (scheduled_task)
\* an invocation of scheduled_task.main starts (EventBridge schedule); the
\* process has its own connection pool
JobInvoke(j) ==
    /\ runs[j].pc \in {"idle", "exit"}
    /\ runs' = [runs EXCEPT ![j] = [IdleRun EXCEPT !.pc = "start"]]
    /\ UNCHANGED <<core, hooks, cancelled, label_calls, nudge_events, ozgrid, ebus, lock, sweeps>>

\* main: conn.fetchval("SELECT pg_try_advisory_lock(42)") on a connection
\* acquired from the pool; the lock is granted to that session when no other
\* session holds it.  Not acquired: return 0 inside the block, no cycle
JobTryLock(j) ==
    /\ runs[j].pc = "start"
    /\ IF lock = "free"
       THEN /\ lock' = j
            /\ runs' = [runs EXCEPT ![j].pc = "locked"]
       ELSE /\ runs' = [runs EXCEPT ![j].pc = "exit"]
            /\ UNCHANGED lock
    /\ UNCHANGED <<core, hooks, cancelled, label_calls, nudge_events, ozgrid, ebus, sweeps>>

\* main: the async with pool.acquire() block ends and the connection goes
\* back to the pool, then loop.run_once() is entered.  reset: the pool resets
\* the released connection, which ends the session's advisory locks
\* (asyncpg's Pool.release runs pg_advisory_unlock_all); otherwise the idle
\* pooled connection keeps the lock
JobRunOnce(j, reset) ==
    /\ runs[j].pc = "locked"
    /\ lock' = IF reset THEN "free" ELSE lock
    /\ runs' = [runs EXCEPT ![j] = EnterCycle(@)]
    /\ UNCHANGED <<core, hooks, cancelled, label_calls, nudge_events, ozgrid, ebus, sweeps>>

\* main: finally: pg_advisory_unlock(42) on a connection of the pool, then
\* db.close() ends every session of the process
JobFinally(j) ==
    /\ runs[j].pc \in {"returned", "raised"}
    /\ lock' = IF lock = j THEN "free" ELSE lock
    /\ runs' = [runs EXCEPT ![j].pc = "exit"]
    /\ UNCHANGED <<core, hooks, cancelled, label_calls, nudge_events, ozgrid, ebus, sweeps>>

\* ------------------------------------------------------ Oz execution grid
_TERMINAL_STATES == {"SUCCEEDED", "FAILED", "CANCELLED"}

\* _poll_runs gives up on a run at its tenth failed retrieve; here the second
max_poll_errors == 2

\* event_bus.publish(AGENT_COMPLETED | AGENT_FAILED, {"execution_id": ...})
publish_terminal(e) == [terminal_events EXCEPT ![e] = @ + 1]

\* Database.get_active_executions_with_external_run_id
get_active_executions_with_external_run_id ==
    {e \in RowIds : executions[e].status \in ACTIVE /\ e \in external_run_id}

\* _claim_and_launch with OzExecutionGrid.launch_agent: client.agent.run, then
\* _run_map[execution_id] = run_id and db.set_external_run_id in a try whose
\* except only logs (persisted = FALSE: the call raised)
OzLaunchAgent(t, persisted) ==
    LET eid == task[t].eid IN
    /\ launch_step(t)
    /\ IF launches' # launches
       THEN /\ oz' = [oz EXCEPT !.run_map = @ \cup {eid}]
            /\ oz_runs' = [oz_runs EXCEPT ![eid] = "RUNNING"]
            /\ external_run_id' = IF persisted
                                  THEN external_run_id \cup {eid}
                                  ELSE external_run_id
       ELSE UNCHANGED <<oz, oz_runs, external_run_id>>
    /\ UNCHANGED <<terminal_events, restarts, cancelled, label_calls, nudge_events, job, sweeps, ebus>>

\* the Oz service: a run ends by itself
OzRunEnds(e, state) ==
    /\ oz_runs[e] = "RUNNING"
    /\ oz_runs' = [oz_runs EXCEPT ![e] = state]
    /\ UNCHANGED <<core, hooks, cancelled, label_calls, nudge_events, job, sweeps, ebus, oz,
                   external_run_id, terminal_events, restarts>>

\* _poll_loop wakes up; _poll_runs: for ... in list(self._run_map.items())
OzPollRuns ==
    /\ oz.poll.pc = "sleep"
    /\ oz.run_map # {}
    /\ oz' = [oz EXCEPT !.poll = [pc |-> "loop", items |-> oz.run_map, eid |-> 0]]
    /\ UNCHANGED <<core, hooks, cancelled, label_calls, nudge_events, job, sweeps, ebus, oz_runs,
                   external_run_id, terminal_events, restarts>>

\* _poll_runs: await self._client.agent.runs.retrieve(run_id)
OzRetrieve(e) ==
    /\ oz.poll.pc = "loop"
    /\ e \in oz.poll.items
    /\ oz' = [oz EXCEPT !.poll = [pc |-> "retrieve", items |-> @.items \ {e},
                                  eid |-> e]]
    /\ UNCHANGED <<core, hooks, cancelled, label_calls, nudge_events, job, sweeps, ebus, oz_runs,
                   external_run_id, terminal_events, restarts>>

\* _poll_runs, the rest of the loop body once retrieve has returned or raised
OzRetrieved(raises) ==
    LET e == oz.poll.eid
        n == oz.poll_errors[e] + 1
        next == IF oz.poll.items = {}
                THEN IdlePoll
                ELSE [oz.poll EXCEPT !.pc = "loop", !.eid = 0]
        forget == [oz EXCEPT !.run_map = @ \ {e}, !.poll_errors[e] = 0,
                             !.poll = next]
    IN
    /\ oz.poll.pc = "retrieve"
    /\ IF raises
       THEN IF n >= max_poll_errors
            THEN /\ oz' = forget
                 /\ terminal_events' = publish_terminal(e)
            ELSE /\ oz' = [oz EXCEPT !.poll_errors[e] = n, !.poll = next]
                 /\ UNCHANGED terminal_events
       ELSE IF e \notin oz.run_map \/ oz_runs[e] \notin _TERMINAL_STATES
            THEN /\ oz' = [oz EXCEPT !.poll = next]
                 /\ UNCHANGED terminal_events
            ELSE /\ oz' = forget
                 /\ terminal_events' = publish_terminal(e)
    /\ UNCHANGED <<core, hooks, cancelled, label_calls, nudge_events, job, sweeps, ebus, oz_runs,
                   external_run_id, restarts>>

\* OzExecutionGrid.cancel_execution: run_id = self._run_map.get(execution_id),
\* if run_id: await self._client.agent.runs.cancel(run_id)
OzCancelExecution(e) ==
    /\ e \in oz.run_map
    /\ e \notin oz.cancelling
    /\ oz' = [oz EXCEPT !.cancelling = @ \cup {e}]
    /\ UNCHANGED <<core, hooks, cancelled, label_calls, nudge_events, job, sweeps, ebus, oz_runs,
                   external_run_id, terminal_events, restarts>>

\* ... the rest once the service has answered (failed = TRUE: the except
\* branch, which logs): publish AGENT_FAILED, pop _executions and _run_map
OzCancelled(e, failed) ==
    /\ e \in oz.cancelling
    /\ oz_runs' = IF ~failed /\ oz_runs[e] = "RUNNING"
                  THEN [oz_runs EXCEPT ![e] = "CANCELLED"]
                  ELSE oz_runs
    /\ terminal_events' = publish_terminal(e)
    /\ oz' = [oz EXCEPT !.run_map = @ \ {e}, !.cancelling = @ \ {e}]
    /\ UNCHANGED <<core, hooks, cancelled, label_calls, nudge_events, job, sweeps, ebus,
                   external_run_id, restarts>>

\* the coordinator's process ends and a new one starts: a new grid object, an
\* empty event bus, no handler in progress; the store and the Oz runs remain
OzRestart ==
    /\ restarts < MaxRestarts
    /\ restarts' = restarts + 1
    /\ oz' = [NewOz EXCEPT !.poll.pc = "stopped"]
    /\ terminal_events' = [e \in ExecIds |-> 0]
    /\ task' = [t \in Tasks |-> IdleTask]
    /\ UNCHANGED <<executions, issue_state, nudge_queue, tracker, grid,
                   lost_claims, next_id, overdue, api, hooks, cancelled, label_calls, nudge_events, job,
                   sweeps, ebus, oz_runs, external_run_id>>

\* OzExecutionGrid.start_polling: the recovery of the in-flight runs in a try
\* whose except only logs (ok = FALSE: the query raised), then the poll task
start_polling(ok) ==
    /\ oz.poll.pc = "stopped"
    /\ oz' = [oz EXCEPT
                !.run_map = IF ok
                            THEN @ \cup get_active_executions_with_external_run_id
                            ELSE @,
                !.poll = IdlePoll]
    /\ UNCHANGED <<core, hooks, cancelled, label_calls, nudge_events, job, sweeps, ebus, oz_runs,
                   external_run_id, terminal_events, restarts>>

\* ------------------------------------------- transition_to, call by call
\* LabelManager.transition_to: issue = await get_issue(...) and the list
\* current_ag_labels computed from it
TransitionRead(c, i, new_label) ==
    /\ label_calls[c].pc = "idle"
    /\ label_calls' = [label_calls EXCEPT ![c] =
            [pc |-> "write", issue_id |-> i, new_label |-> new_label,
             current_ag_labels |-> labels[i] \cap AG_LABELS]]
    /\ UNCHANGED <<core, hooks, cancelled, ozgrid, job, sweeps, ebus, nudge_events>>

\* ... the _remove_label requests for the labels read (a label that is gone
\* is no error) and the _add_label request
TransitionWrite(c) ==
    LET call == label_calls[c]
        removed == labels[call.issue_id] \
                        {l \in call.current_ag_labels : l # call.new_label}
    IN
    /\ call.pc = "write"
    /\ labels' = [labels EXCEPT ![call.issue_id] =
            IF call.new_label \notin call.current_ag_labels
            THEN removed \cup {call.new_label}
            ELSE removed]
    /\ label_calls' = [label_calls EXCEPT ![c] = IdleCall]
    /\ UNCHANGED <<executions, issue_state, nudge_queue, comments, issue_open,
                   grid, lost_claims, next_id, overdue, task, api, hooks,
                   cancelled, ozgrid, job, sweeps, ebus, nudge_events>>

\* ---------------------------------------------------------- specifications
\* Spec: the scheduler (ISSUE_CREATED, NUDGE_REQUESTED, AGENT_COMPLETED,
\* AGENT_FAILED), the management loop (scan, classify, launch, timeout sweep),
\* the cancel endpoint and the clock, racing for the execution rows of all
\* issues.  The classifier answers SIMPLE; no pull request needs work.
Next ==
    \/ \E i \in Issues, pl \in PayloadLabels : SchedIssueCreated(i, pl, "SIMPLE")
    \/ next_id <= MaxRace /\ \E i \in Issues : SchedNudgeRequested(i)
    \/ SchedTryClaim
    \/ \E e \in ExecIds : SchedAgentCompleted(e, "NULL")
    \/ \E e \in ExecIds : SchedAgentFailed(e)
    \/ next_id <= MaxRace /\ \E t \in Tasks : TaskClaim(t)
    \/ \E t \in Tasks : TaskLaunch(t)
    \/ \E e \in ExecIds : ApiCancelRead(e)
    \/ \E outcome \in CancelOutcomes \ {"cancelled"} : ApiCancelWrite(outcome)
    \/ LoopScan
    \/ \E i \in Issues : LoopClassify(i, "SIMPLE")
    \/ LoopSweepRead
    \/ LoopSweepStep
    \/ LoopCheckPrs({})
    \/ LoopCheckClosedPrs({})
    \/ LoopCheckBlocked({})
    \/ LoopCycleDone
    \/ \E e \in ExecIds : Tick(e)

Spec == Init /\ [][Next]_vars

\* SpecState: the scheduler alone, handling the events of one issue that read
\* and write its issue_state row: ISSUE_CREATED with every classification,
\* PR_CLOSED (not merged), CHECK_RUN_FAILED, AGENT_COMPLETED, AGENT_FAILED
TheIssue == {1}

NextState ==
    \/ \E i \in TheIssue, pl \in PayloadLabels, cat \in Categories :
            SchedIssueCreated(i, pl, cat)
    \/ \E i \in TheIssue : SchedPrClosed(i, FALSE, TRUE)
    \/ \E i \in TheIssue, head_sha \in Shas : SchedCheckRunFailed(i, head_sha)
    \/ TaskClaim("sched")
    \/ TaskLaunch("sched")
    \/ \E e \in ExecIds : SchedAgentCompleted(e, "NULL")
    \/ \E e \in ExecIds : SchedAgentFailed(e)

SpecState == Init /\ [][NextState]_vars

\* SpecClaim: the launch paths alone.  The scheduler and the management loop
\* race for the claim and submit to a backend that may raise; agents end; no
\* row times out and nobody cancels.
NextClaim ==
    \/ \E i \in Issues, pl \in PayloadLabels : SchedIssueCreated(i, pl, "SIMPLE")
    \/ next_id <= MaxRace /\ \E i \in Issues : SchedNudgeRequested(i)
    \/ SchedTryClaim
    \/ \E e \in ExecIds : SchedAgentCompleted(e, "NULL")
    \/ \E e \in ExecIds : SchedAgentFailed(e)
    \/ next_id <= MaxRace /\ \E t \in Tasks : TaskClaim(t)
    \/ \E t \in Tasks : TaskLaunch(t)
    \/ LoopScan
    \/ \E i \in Issues : LoopClassify(i, "SIMPLE")
    \/ LoopSweepRead
    \/ LoopSweepStep
    \/ LoopCheckPrs({})
    \/ LoopCheckClosedPrs({})
    \/ LoopCheckBlocked({})
    \/ LoopCycleDone

SpecClaim == Init /\ [][NextClaim]_vars

\* SpecCi: the scheduler alone, handling the CI events of one issue:
\* ISSUE_CREATED with every classification, CHECK_RUN_FAILED with and without
\* a head SHA, AGENT_COMPLETED, AGENT_FAILED
NextCi ==
    \/ \E i \in TheIssue, pl \in PayloadLabels, cat \in Categories :
            SchedIssueCreated(i, pl, cat)
    \/ \E i \in TheIssue, head_sha \in Shas : SchedCheckRunFailed(i, head_sha)
    \/ TaskClaim("sched")
    \/ TaskLaunch("sched")
    \/ \E e \in ExecIds : SchedAgentCompleted(e, "NULL")
    \/ \E e \in ExecIds : SchedAgentFailed(e)

SpecCi == Init /\ [][NextCi]_vars

\* SpecDedup: webhook events are persisted in the inbox (each delivery with a
\* delivery_id of its own) while the clock runs and the webhook processor
\* polls, reads a batch and handles its groups
NextDedup ==
    \/ \E k \in HookKinds, i \in HookIssues :
            InboxReceive(Cardinality(InboxIds) + 1, k, i)
    \/ ProcBatch
    \/ \E i \in HookIssues : ProcGroup(i)
    \/ Advance

SpecDedup == Init /\ [][NextDedup]_vars

\* SpecDedupLive: ... and the poll loop keeps running: time passes, and the
\* loop's next read and its next group are not postponed forever
SpecDedupLive ==
    /\ Init /\ [][NextDedup]_vars
    /\ WF_vars(Advance)
    /\ WF_vars(ProcBatch)
    /\ WF_vars(\E i \in HookIssues : ProcGroup(i))

\* SpecIngress: the webhook endpoint of the application as main.py builds it
\* (the webhook processor is not among the services it starts)
NextIngress ==
    \E d \in DeliveryIds, k \in HookKinds, i \in HookIssues : IngressDeliver(d, k, i)

SpecIngress == Init /\ [][NextIngress]_vars

\* SpecAgent: the scheduler alone with the nudge queue: ISSUE_CREATED
\* launches, agents end, nudges are queued and processed after each agent event
NextAgent ==
    \/ \E i \in Issues : SchedIssueCreated(i, {"ag/todo"}, "SIMPLE")
    \/ TaskClaim("sched")
    \/ TaskLaunch("sched")
    \/ \E e \in ExecIds : SchedAgentCompleted(e, "NULL")
    \/ \E e \in ExecIds : SchedAgentFailed(e)
    \/ \E i \in Issues : ApiNudge(i)
    \/ \E i \in Issues : SchedNudgeNext(i)
    \/ SchedTryClaim

SpecAgent == Init /\ [][NextAgent]_vars

\* SpecCheckpoint: the scheduler and the cancel endpoint on one issue: agents
\* are launched, cancelled, and end with and without a checkpoint
NextCheckpoint ==
    \/ \E i \in TheIssue : SchedIssueCreated(i, {"ag/todo"}, "SIMPLE")
    \/ TaskClaim("sched")
    \/ TaskLaunch("sched")
    \/ \E e \in ExecIds, checkpoint \in Checkpoints : SchedAgentCompleted(e, checkpoint)
    \/ \E e \in ExecIds : SchedAgentFailed(e)
    \/ \E e \in ExecIds : ApiCancelRead(e)
    \/ \E outcome \in CancelOutcomes \ {"cancelled"} : ApiCancelWrite(outcome)

SpecCheckpoint == Init /\ [][NextCheckpoint]_vars

\* SpecCancel: the cancel endpoint alone on the executions the scheduler has
\* launched, with every outcome of the backend's cancel and the scheduler
\* handling the event a successful backend cancel publishes; no agent ends
NextCancel ==
    \/ \E i \in Issues : SchedIssueCreated(i, {"ag/todo"}, "SIMPLE")
    \/ TaskClaim("sched")
    \/ TaskLaunch("sched")
    \/ \E e \in ExecIds : ApiCancelRead(e)
    \/ \E outcome \in CancelOutcomes : ApiCancelWrite(outcome)
    \/ \E e \in ExecIds : SchedAgentCancelled(e)

SpecCancel == Init /\ [][NextCancel]_vars

\* SpecOz: the Oz backend in one process: executions are claimed and launched,
\* their runs end, the poll loop retrieves them with and without errors, and
\* cancel_execution is called for tracked executions
NextOz ==
    \/ \E i \in Issues : SchedIssueCreated(i, {"ag/todo"}, "SIMPLE")
    \/ TaskClaim("sched")
    \/ \E persisted \in BOOLEAN : OzLaunchAgent("sched", persisted)
    \/ \E e \in ExecIds, state \in {"SUCCEEDED", "FAILED"} : OzRunEnds(e, state)
    \/ OzPollRuns
    \/ \E e \in ExecIds : OzRetrieve(e)
    \/ \E raises \in BOOLEAN : OzRetrieved(raises)
    \/ \E e \in ExecIds : OzCancelExecution(e)
    \/ \E e \in ExecIds, failed \in BOOLEAN : OzCancelled(e, failed)

SpecOz == Init /\ [][NextOz]_vars

\* SpecRestart: the Oz backend across restarts of the coordinator, without
\* cancels; SpecRestartLive: the poll loop keeps running, start_polling is
\* reached after a restart, and every run ends at the Oz service
NextRestart ==
    \/ \E i \in Issues : SchedIssueCreated(i, {"ag/todo"}, "SIMPLE")
    \/ TaskClaim("sched")
    \/ \E persisted \in BOOLEAN : OzLaunchAgent("sched", persisted)
    \/ \E e \in ExecIds, state \in {"SUCCEEDED", "FAILED"} : OzRunEnds(e, state)
    \/ OzPollRuns
    \/ \E e \in ExecIds : OzRetrieve(e)
    \/ \E raises \in BOOLEAN : OzRetrieved(raises)
    \/ OzRestart
    \/ \E ok \in BOOLEAN : start_polling(ok)

SpecRestart == Init /\ [][NextRestart]_vars

SpecRestartLive ==
    /\ SpecRestart
    /\ WF_vars(OzPollRuns)
    /\ WF_vars(\E e \in ExecIds : OzRetrieve(e))
    /\ WF_vars(\E raises \in BOOLEAN : OzRetrieved(raises))
    /\ WF_vars(\E ok \in BOOLEAN : start_polling(ok))
    /\ \A e \in ExecIds :
            WF_vars(\E state \in {"SUCCEEDED", "FAILED"} : OzRunEnds(e, state))

\* SpecTerminal: the scheduler with well-behaved events: ISSUE_CREATED arrives
\* while the issue still carries ag/todo alone, the backend reports on an
\* execution once, while it is pending or running, and pull requests of
\* issues with a completed execution are closed without a merge
NextTerminal ==
    \/ \E i \in Issues, cat \in Categories :
            labels[i] = {"ag/todo"} /\ SchedIssueCreated(i, {"ag/todo"}, cat)
    \/ TaskClaim("sched")
    \/ TaskLaunch("sched")
    \/ \E e \in RowIds :
            executions[e].status \in ACTIVE /\ SchedAgentCompleted(e, "NULL")
    \/ \E e \in RowIds :
            executions[e].status \in ACTIVE /\ SchedAgentFailed(e)
    \/ \E i \in Issues :
            /\ \E e \in RowIds : /\ executions[e].issue_id = i
                                 /\ executions[e].status = "completed"
            /\ SchedPrClosed(i, FALSE, TRUE)

SpecTerminal == Init /\ [][NextTerminal]_vars

\* SpecRace: the scheduler's handler and the management loop call
\* transition_to for one issue, each with a target of its own choice
Targets == {"ag/in-progress", "ag/blocked", "ag/failed"}

NextRace ==
    \/ \E c \in Callers, i \in TheIssue, new_label \in Targets :
            TransitionRead(c, i, new_label)
    \/ \E c \in Callers : TransitionWrite(c)

SpecRace == Init /\ [][NextRace]_vars

\* SpecStuck: the management loop, cycle after cycle, with the clock, the
\* cancel endpoint and the agents' terminal events; the classifier answers
\* SIMPLE and no pull request needs work.  SpecStuckLive: the loop keeps
\* running and time keeps passing; an agent need not ever report.
NextStuck ==
    \/ LoopScan
    \/ \E i \in Issues : LoopClassify(i, "SIMPLE")
    \/ TaskClaim("loop")
    \/ TaskLaunch("loop")
    \/ LoopSweepRead
    \/ LoopSweepStep
    \/ LoopCheckPrs({})
    \/ LoopCheckClosedPrs({})
    \/ LoopCheckBlocked({})
    \/ LoopCycleDone
    \/ \E e \in ExecIds : Tick(e)
    \/ \E e \in ExecIds : ApiCancelRead(e)
    \/ \E outcome \in CancelOutcomes \ {"cancelled"} : ApiCancelWrite(outcome)
    \/ \E e \in ExecIds : SchedAgentCompleted(e, "NULL")
    \/ \E e \in ExecIds : SchedAgentFailed(e)

SpecStuck == Init /\ [][NextStuck]_vars

SpecStuckLive ==
    /\ SpecStuck
    /\ WF_vars(LoopScan)
    /\ WF_vars(\E i \in Issues : LoopClassify(i, "SIMPLE"))
    /\ WF_vars(TaskClaim("loop"))
    /\ WF_vars(TaskLaunch("loop"))
    /\ WF_vars(LoopSweepRead)
    /\ WF_vars(LoopSweepStep)
    /\ WF_vars(LoopCheckPrs({}))
    /\ WF_vars(LoopCheckClosedPrs({}))
    /\ WF_vars(LoopCheckBlocked({}))
    /\ WF_vars(LoopCycleDone)
    /\ WF_vars(\E e \in ExecIds : Tick(e))

\* SpecNudge: an agent works on issue 1; one nudge is requested for issue 2,
\* for which nothing else launches; the scheduler handles the nudge's
\* NUDGE_REQUESTED event and, after each agent event, the pending nudges
NudgedIssue == {2}

NextNudge ==
    \/ \E i \in TheIssue : SchedIssueCreated(i, {"ag/todo"}, "SIMPLE")
    \/ TaskClaim("sched")
    \/ TaskLaunch("sched")
    \/ \E i \in NudgedIssue :
            /\ \A l \in launches : l.issue_id # i
            /\ ApiNudge(i)
    \/ \E i \in NudgedIssue : SchedNudgeEvent(i)
    \/ \E i \in Issues : SchedNudgeNext(i)
    \/ SchedTryClaim
    \/ \E e \in ExecIds : SchedAgentCompleted(e, "NULL")
    \/ \E e \in ExecIds : SchedAgentFailed(e)

SpecNudge == Init /\ [][NextNudge]_vars

\* SpecCycle: the management loop of the application runs its cycles, a phase
\* returning or raising
NextCycle ==
    \/ LoopCycleStart
    \/ \E caught \in BOOLEAN : PhaseReturns("loop", caught)
    \/ PhaseRaises("loop")
    \/ LoopSleep

SpecCycle == Init /\ [][NextCycle]_vars

\* SpecJob: two invocations of the standalone job, started at any time
NextJob ==
    \/ \E j \in Jobs : JobInvoke(j)
    \/ \E j \in Jobs : JobTryLock(j)
    \/ \E j \in Jobs, reset \in BOOLEAN : JobRunOnce(j, reset)
    \/ \E j \in Jobs, caught \in BOOLEAN : PhaseReturns(j, caught)
    \/ \E j \in Jobs : PhaseRaises(j)
    \/ \E j \in Jobs : JobFinally(j)

SpecJob == Init /\ [][NextJob]_vars

\* SpecReview: the management loop with its PR review sweep, agents that
\* complete, the reviewers of one issue's PR and the clock
NextReview ==
    \/ LoopScan
    \/ \E i \in Issues : LoopClassify(i, "SIMPLE")
    \/ TaskClaim("loop")
    \/ TaskLaunch("loop")
    \/ \E e \in ExecIds : SchedAgentCompleted(e, "NULL")
    \/ LoopSweepRead
    \/ LoopSweepStep
    \/ LoopFetchReviews
    \/ LoopAdvanceCursor
    \/ \E i \in TheIssue : LoopReview(i)
    \/ LoopCheckClosedPrs({})
    \/ LoopCheckBlocked({})
    \/ LoopCycleDone
    \/ \E i \in TheIssue : ReviewSubmitted(i)
    \/ Advance

SpecReview == Init /\ [][NextReview]_vars

\* SpecBlocked: issues labeled ag/blocked with any comments so far on the
\* first; comments arrive, the management loop runs its cycles, agents end
InitBlocked ==
    /\ InitStore
    /\ NoDeps
    /\ labels = [i \in Issues |-> {"ag/blocked"}]
    /\ \E n \in 0..(MaxComments - 1) :
        threads \in [Issues -> [1..n -> CommentKinds] \cup {<<>>}]
    /\ \A i \in Issues \ TheIssue : threads[i] = <<>>

NextBlocked ==
    \/ \E i \in TheIssue, c \in CommentKinds : CommentPosted(i, c)
    \/ LoopScan
    \/ LoopSweepRead
    \/ LoopSweepStep
    \/ LoopCheckPrs({})
    \/ LoopCheckClosedPrs({})
    \/ LoopCheckBlockedIssues
    \/ \E i \in Issues : LoopUnblocked(i)
    \/ TaskClaim("loop")
    \/ TaskLaunch("loop")
    \/ LoopCycleDone
    \/ \E e \in ExecIds : SchedAgentCompleted(e, "NULL")

SpecBlocked == InitBlocked /\ [][NextBlocked]_vars

\* SpecDeps: the dependency sweep over issues with any blockers, sub-issues
\* and labels of a planned epic; issues are closed and sub-issues fail
DepLabels == {{"ag/waiting"}, {"ag/sub-issue", "ag/waiting"}, {"ag/todo", "ag/waiting"},
              {"ag/sub-issue"}, {"ag/epic"}, {"ag/review-pending"}}

InitDeps ==
    /\ InitStore
    /\ threads = [i \in Issues |-> <<>>]
    /\ labels \in [Issues -> DepLabels]
    /\ blocked_by \in [Issues -> SUBSET Issues]
    /\ subissues \in [Issues -> SUBSET Issues]
    /\ \A i \in Issues :
        /\ \A b \in blocked_by[i] : b # i /\ i \notin blocked_by[b]
        /\ \A c \in subissues[i] : c # i /\ subissues[c] = {}

NextDeps ==
    \/ \E i \in Issues : IssueClosed(i)
    \/ \E i \in Issues : LabelTransition(i, "ag/failed")
    \/ \E i \in Issues, unfetchable \in SUBSET Issues : CheckDependencies(i, unfetchable)
    \/ \E p \in Issues : CheckParentCompletion(p)

SpecDeps == InitDeps /\ [][NextDeps]_vars

\* SpecBus: producers publish, the consumer gets and dispatches, handlers raise
NextBus ==
    \/ \E type \in EventTypes : Publish(type)
    \/ ConsumeGet
    \/ \E raising \in SUBSET Handlers : Dispatch(raising)

SpecBus == Init /\ [][NextBus]_vars

\* SpecShutdown: the event bus until the application shuts down
NextShutdown ==
    \/ NextBus
    \/ \E began \in BOOLEAN : BusStop(began)

SpecShutdown == Init /\ [][NextShutdown]_vars

\* SpecLabels: the label manager alone, on issues that carry any labels
InitialLabels == {"ag/todo", "ag/blocked", "ag/custom", "bug"}

InitLabels ==
    /\ InitStore
    /\ NoDeps
    /\ labels \in [Issues -> SUBSET InitialLabels]
    /\ threads = [i \in Issues |-> <<>>]

NextLabels == \E i \in Issues, new_label \in AG_LABELS : LabelTransition(i, new_label)

SpecLabels == InitLabels /\ [][NextLabels]_vars

\* SpecSelect: selection alone, on issues that carry any labels: the scanner
\* and the classification phase of the loop, and the scheduler's ISSUE_CREATED
\* and ISSUE_UPDATED handlers with any labels in the payload
NextSelect ==
    \/ LoopScan
    \/ \E i \in Issues : LoopClassify(i, "SIMPLE")
    \/ \E i \in Issues, pl \in SUBSET InitialLabels : SchedIssueCreated(i, pl, "SIMPLE")
    \/ \E i \in Issues, pl \in SUBSET InitialLabels : SchedIssueUpdated(i, pl, "SIMPLE")
    \/ \E t \in Tasks : TaskClaim(t)
    \/ \E t \in Tasks : TaskLaunch(t)

SpecSelect == InitLabels /\ [][NextSelect]_vars

\* ------------------------------------------------------------------ claims
\* C1: in every reachable state each issue has at most one execution whose
\* status is pending or running
AtMostOneActive == \A i \in Issues : Cardinality(ActiveRows(i)) <= 1

\* a claim was refused for an issue that has its active execution
ClaimRefusedWhileActive == \E l \in lost_claims : ActiveRows(l.issue_id) # {}

\* C2: a caller that does not win the claim never submits an agent to the
\* compute backend
LoserNeverLaunches == \A l \in lost_claims : l.eid \notin Launched

\* C3: a claim attempt of an ISSUE_CREATED path that races with another
\* attempt for the same issue and finds the issue claimed inserts nothing and
\* changes nothing (a lost claim); the attempt that finds it unclaimed inserts
\* exactly one pending row
ClaimStep(t) == task[t].pc = "claim" /\ task'[t] # task[t] /\ task[t].kind = "simple"

RaceInsertsOneRow ==
    [][\A t \in Tasks :
        ClaimStep(t) =>
            IF ActiveRows(task[t].issue_id) # {}
            THEN /\ executions' = executions
                 /\ launches' = launches
                 /\ issue_state' = issue_state
                 /\ labels' = labels
                 /\ comments' = comments
                 /\ Cardinality(lost_claims') = Cardinality(lost_claims) + 1
            ELSE /\ RowIds' = RowIds \cup {next_id}
                 /\ next_id \notin RowIds
                 /\ executions'[next_id].issue_id = task[t].issue_id
                 /\ executions'[next_id].status = "pending"
                 /\ \A e \in RowIds : executions'[e] = executions[e]
                 /\ lost_claims' = lost_claims]_vars

\* two attempts raced: one row for the issue, the other attempt lost its claim
RaceLost ==
    \E l \in lost_claims :
        /\ l.kind = "simple"
        /\ Cardinality({e \in RowIds : executions[e].issue_id = l.issue_id}) = 1

\* C4: launch_agent is called for an execution only after try_claim_issue
\* returned true for it, that is, after its row was inserted
ClaimBeforeLaunch == \A l \in launches : l.eid \in RowIds

\* C5: when launch_agent raises after a successful claim the claimed execution
\* is marked failed with the failure reason as result, and no execution whose
\* launch failed is left pending
NoFailedLaunchPending ==
    \A e \in failed_launches : e \in RowIds => executions[e].status = "failed"

LaunchFailureMarked ==
    \A e \in RowIds :
        e \in failed_launches' /\ e \notin failed_launches =>
            /\ executions'[e].status = "failed"
            /\ executions'[e].result = "Launch failed"

FailedLaunchIsFailed == []NoFailedLaunchPending /\ [][LaunchFailureMarked]_vars

\* a claimed execution whose launch raised
ClaimedLaunchFailed == \E e \in failed_launches : e \in RowIds

\* C6: a launch is attempted only when the number of pending or running
\* executions counted at the budget check was below max_concurrent_executions
BudgetRespected ==
    \A t \in Tasks :
        task[t].pc \in {"launch", "try_claim"} =>
            task[t].seen < max_concurrent_executions

\* C7: once an execution is completed or failed no operation changes its
\* status or its result
TerminalIsFinal ==
    [][\A e \in ExecIds :
        executions[e].status \in TERMINAL =>
            /\ executions'[e].status = executions[e].status
            /\ executions'[e].result = executions[e].result]_vars

\* C8: an issue receives at most max_retries_per_issue retry_with_feedback
\* launches
RetryLaunches(i) ==
    {l \in launches : l.issue_id = i /\ l.mode = "retry_with_feedback"}

RetriesBounded ==
    \A i \in Issues : Cardinality(RetryLaunches(i)) <= max_retries_per_issue

\* C9: an upsert that supplies only the classification, or only the metadata,
\* leaves the stored retry_count and the other unsupplied fields unchanged
RetryUpsert(i) ==
    \E t \in Tasks :
        task[t].pc = "launch" /\ task[t].kind = "retry" /\ task[t].issue_id = i

UpsertKeepsUnsupplied ==
    [][\A i \in Issues :
        issue_state[i].exists /\ issue_state'[i] # issue_state[i] /\ ~RetryUpsert(i) =>
            /\ issue_state'[i].retry_count = issue_state[i].retry_count
            /\ \/ issue_state'[i].classification = issue_state[i].classification
               \/ issue_state'[i].metadata = issue_state[i].metadata]_vars

\* C10: a CHECK_RUN_FAILED event whose head SHA is the stored
\* last_ci_check_sha launches nothing and changes no metadata; the event that
\* is handled launches fix_ci for a SHA that is not the stored one, and leaves
\* ci_fix_count one higher and last_ci_check_sha equal to its SHA
CiMetadataStep(i) ==
    LET old == meta_of(issue_state[i])
        new == meta_of(issue_state'[i])
    IN  new # old =>
            /\ new.ci_fix_count = old.ci_fix_count + 1
            /\ ~(new.last_ci_check_sha # "" /\
                 new.last_ci_check_sha = old.last_ci_check_sha)

CiLaunchStep(l) ==
    l.mode = "fix_ci" =>
        LET head_sha == task["sched"].metadata.last_ci_check_sha
        IN  /\ head_sha = "" \/ read_metadata(l.issue_id).last_ci_check_sha # head_sha
            /\ meta_of(issue_state'[l.issue_id]) = task["sched"].metadata
            /\ task["sched"].metadata.ci_fix_count =
                    read_metadata(l.issue_id).ci_fix_count + 1

CiDeduplicated ==
    [][/\ \A i \in Issues : CiMetadataStep(i)
       /\ \A l \in launches' \ launches : CiLaunchStep(l)]_vars

\* the first event for sha_a launched fix_ci and is recorded
CiFixRecorded ==
    \E l \in launches :
        /\ l.mode = "fix_ci"
        /\ read_metadata(l.issue_id).ci_fix_count = 1
        /\ read_metadata(l.issue_id).last_ci_check_sha = "sha_a"

\* C11: when opened, labeled (adding a trigger label) and closed events of one
\* issue are all received within one quiet period, the closed one last, the
\* webhook processor publishes no event for that issue.
BurstOf(i) == {h \in InboxIds : webhook_events[h].issue_id = i}

ClosedBurst(i) ==
    LET R == BurstOf(i) IN
    /\ \E o, l, c \in R :
        /\ webhook_events[o].action = "opened"
        /\ webhook_events[l].action = "labeled"
        /\ has_trigger_label(webhook_events[l].labels)
        /\ webhook_events[c].action = "closed"
        /\ o < l /\ l < c
        /\ webhook_events[l].received_at < webhook_events[c].received_at
    /\ \A g, h \in R :
        webhook_events[h].received_at - webhook_events[g].received_at < quiet_period

ClosedBurstSilent ==
    \A i \in HookIssues \ {0} :
        ClosedBurst(i) => \A n \in 1..Len(bus) : bus[n].issue_id # i

GroupStep == proc.pc = "batch" /\ proc'.batch # proc.batch

GroupCoalesced ==
    [][GroupStep =>
        LET G == proc.batch \ proc'.batch IN
        /\ \A g, h \in G : webhook_events[g].issue_id = webhook_events[h].issue_id
        /\ Len(bus') <= Len(bus) + 1
        /\ \A h \in G : webhook_events'[h].processed
        /\ \E p \in G :
            /\ \A h \in G : webhook_events[p].received_at <= webhook_events[h].received_at
            /\ \A h \in G \ {p} : webhook_events'[h].coalesced_into = p]_vars

\* two events of one issue, received at different instants, were coalesced
\* into the earlier one and one event was published for them
PairCoalesced ==
    \E g, h \in InboxIds :
        /\ webhook_events[g].received_at < webhook_events[h].received_at
        /\ webhook_events[g].issue_id = webhook_events[h].issue_id
        /\ webhook_events[g].processed /\ webhook_events[h].processed
        /\ webhook_events[g].coalesced_into = g
        /\ webhook_events[h].coalesced_into = g
        /\ \E n \in 1..Len(bus) : bus[n].hook = webhook_events[g].delivery_id

\* C14: a label set carries a trigger label iff it holds an ag/* label or one
\* of agent, automated, agent-grid; the webhook processor publishes for an
\* opened or labeled group exactly when its final label set carries one, and
\* the scheduler's auto-launch predicate admits the labels it publishes.
carries_trigger_label(ls) ==
    \E l \in ls : ag_prefixed(l) \/ l \in {"agent", "automated", "agent-grid"}

TriggerLabelsAgree ==
    [][GroupStep =>
        LET G == proc.batch \ proc'.batch
            ls == final_labels(G)
        IN  (/\ "closed" \notin ActionsOf(G)
             /\ \A h \in G : ~webhook_events[h].nudge
             /\ ActionsOf(G) \cap {"opened", "labeled"} # {})
            => /\ (bus' # bus) <=> carries_trigger_label(ls)
               /\ carries_trigger_label(ls) <=> _should_auto_launch(ls)]_vars

\* C15: every event on the bus that stems from a webhook was published by the
\* webhook processor for a row of the inbox; the endpoint publishes none.
IngressNeverPublishes ==
    \A n \in 1..Len(bus) :
        /\ bus[n].by = "processor"
        /\ \E h \in InboxIds : webhook_events[h].delivery_id = bus[n].hook

\* C16: there is at most one inbox row per delivery_id; a delivery whose
\* delivery_id was delivered before is answered "duplicate" and no delivery_id
\* has more than one event published for it.
DuplicateDeliveryAbsorbed ==
    /\ \A g, h \in InboxIds :
        webhook_events[g].delivery_id = webhook_events[h].delivery_id => g = h
    /\ \A n \in 1..Len(responses) :
        (\E m \in 1..(n - 1) : responses[m].delivery_id = responses[n].delivery_id)
            => responses[n].status = "duplicate"
    /\ \A d \in DeliveryIds :
        Cardinality({n \in 1..Len(bus) : bus[n].hook = d}) <= 1

\* C17: an AGENT_COMPLETED (AGENT_FAILED) event for a known execution leaves
\* the execution completed (failed) and its issue labeled ag/review-pending
\* (ag/failed); no nudge has been processed by then, and the pending nudges
\* are what the handler turns to next.
Finalized(e, status, label) ==
    /\ executions'[e].status = status
    /\ label \in labels'[executions[e].issue_id]
    /\ launches' = launches
    /\ nudge_queue' = nudge_queue
    /\ task'["sched"] = Ret(PendingNudges)

CheckpointReturned ==
    [][\A e \in ExecIds, checkpoint \in Checkpoints \ {"NULL"} :
        (/\ e \in RowIds
         /\ executions[e].result \notin {"ok", "error"}
         /\ SchedAgentCompleted(e, checkpoint))
            => get_latest_checkpoint(executions', executions[e].issue_id) = checkpoint]_vars

\* C19: a transition_to(L) leaves the issue with exactly one ag/* label, L,
\* whatever labels the issue carried, and a second transition_to(L) changes
\* nothing.
TransitionLeavesOneAg ==
    [][\A i \in Issues, new_label \in AG_LABELS :
        LabelTransition(i, new_label)
            => /\ {l \in labels'[i] : ag_prefixed(l)} = {new_label}
               /\ transition_to(labels'[i], new_label) = labels'[i]]_vars

\* C20: when a timeout sweep ends, no execution that was pending or running
\* and timed out when the sweep read the executions is still pending or
\* running; and a step of the sweep changes only timed-out executions, to
\* failed with result "Timed out".
SweepFailsOverdue ==
    [][/\ (task["loop"].pc = "sweep" /\ task'["loop"].pc = "reviews")
            => \A e \in task["loop"].due : executions[e].status \notin ACTIVE
       /\ LoopSweepStep
            => \A e \in RowIds :
                executions'[e] # executions[e]
                    => /\ timed_out(e)
                       /\ executions'[e].status = "failed"
                       /\ executions'[e].result = "Timed out"]_vars

\* C21: when an exception of a phase has ended a cycle of the control loop,
\* every phase that follows the raising phase in run_cycle has run in that
\* cycle.
LaterPhasesRun ==
    \A k \in 1..Len(Phases), m \in 1..Len(Phases) :
        (runs["loop"].pc = "raised" /\ runs["loop"].raised = Phases[k] /\ m > k)
            => Phases[m] \in runs["loop"].ran

\* C26: two invocations of the standalone job are never inside run_cycle at
\* the same time, and an invocation that starts while another one is inside
\* run_cycle exits without running a cycle.
InCycle(j) == runs[j].pc = "cycle"

JobsNeverOverlap ==
    /\ ~(InCycle("job1") /\ InCycle("job2"))
    /\ \A j \in Jobs, o \in Jobs :
            (j # o /\ InCycle(o)) => runs[j].pc \notin {"locked", "cycle"}

\* C22: a step that advances the last_pr_check cursor past a review reports
\* the review's issue to the review handler, and the review handler enters
\* _claim_and_launch in address_review mode for every issue reported to it.
ReviewsNeverPassedOver ==
    [][/\ \A r \in reviews :
            (is_new(r, last_pr_check) /\ ~is_new(r, last_pr_check'))
                => r.issue_id \in task'["loop"].items
       /\ \A i \in Issues :
            LoopReview(i)
                => /\ task'["loop"].pc = "claim"
                   /\ task'["loop"].mode = "address_review"]_vars

\* C23: the unblocked sweep selects exactly the open ag/blocked issues with a
\* comment from a human after the last type=blocked comment; for each selected
\* issue without an active execution the handler sets ag/in-progress and
\* enters _claim_and_launch in implement mode with the human comment among the
\* prompt's clarification comments; and an issue leaves ag/blocked only with
\* such a human comment.
is_human(c) == c.meta = "none" /\ c.author_type # "Bot" /\ ~ends_with_bot(c.author)

HumanReply(cs) ==
    \E b \in 1..Len(cs) :
        /\ cs[b].meta = "blocked"
        /\ \A j \in (b + 1)..Len(cs) : cs[j].meta # "blocked"
        /\ \E k \in (b + 1)..Len(cs) : is_human(cs[k])

WaitingReleasedToTodo ==
    [][\A i \in Issues, unfetchable \in SUBSET Issues :
        (issue_open[i] /\ blocked_by[i] # {} /\ CheckDependencies(i, unfetchable))
            => IF \A b \in blocked_by[i] : ~issue_open[b] /\ b \notin unfetchable
               THEN /\ "ag/waiting" \notin labels'[i]
                    /\ "ag/todo" \in labels'[i]
                    /\ i \in scan'
               ELSE labels'[i] = labels[i]]_vars

\* C25: a dependency sweep step for an open ag/epic parent with sub-issues
\* that are all closed or ag/failed comments on the parent and closes it,
\* with ag/done when no sub-issue failed and ag/failed otherwise; with a
\* sub-issue open and not failed the parent is unchanged.
EpicsClosedWhenSubsDone ==
    [][\A p \in Issues :
        (issue_open[p] /\ subissues[p] # {} /\ CheckParentCompletion(p))
            => IF \A s \in subissues[p] : ~issue_open[s] \/ "ag/failed" \in labels[s]
               THEN /\ comments'[p] # comments[p]
                    /\ ~issue_open'[p]
                    /\ IF \E s \in subissues[p] : "ag/failed" \in labels[s]
                       THEN "ag/failed" \in labels'[p]
                       ELSE "ag/done" \in labels'[p]
               ELSE /\ labels'[p] = labels[p]
                    /\ comments'[p] = comments[p]
                    /\ issue_open'[p]]_vars

\* C27: a publish call is always possible and returns at once; the queue
\* never holds more than max_size events; a publish on a full queue leaves
\* the queue as it is and discards the new event.
PublishNeverBlocks ==
    /\ [](/\ Len(queue) <= max_size
          /\ published < MaxPublish => \A type \in EventTypes : ENABLED Publish(type))
    /\ [][\A type \in EventTypes :
            (Publish(type) /\ Len(queue) = max_size)
                => queue' = queue /\ published' \in dropped']_vars

\* an event has been discarded and the queue is full of earlier events
DroppedWhenFull ==
    /\ dropped # {}
    /\ Len(queue) = max_size
    /\ \A k \in 1..Len(queue) : \A d \in dropped : queue[k].id < d

\* C28: every handler receives the accepted events of one type in the order
\* of their publish calls.
DispatchInPublishOrder ==
    \A h \in Handlers : \A a \in 1..Len(handed[h]), b \in 1..Len(handed[h]) :
        (a < b /\ handed[h][a].type = handed[h][b].type)
            => handed[h][a].id < handed[h][b].id

\* a handler has received three events, two of them of one type with an
\* event of the other type published between them
ThreeDispatched ==
    \E h \in Handlers :
        /\ Len(handed[h]) = 3
        /\ handed[h][1].type = handed[h][3].type
        /\ handed[h][2].type # handed[h][1].type

\* C29: the dispatch of an event calls every handler subscribed to the
\* event's type or to all types, whichever handlers raise, and the consumer
\* then goes on to the next event.
Subscribed(h, type) ==
    \E k \in 1..Len(Subscriptions) :
        Subscriptions[k].handler = h /\ Subscriptions[k].key \in {type, "None"}

AllHandlersRun ==
    /\ [][\A raising \in SUBSET Handlers :
            Dispatch(raising)
                => /\ \A h \in Handlers :
                        Subscribed(h, consumer.event.type)
                            => handed'[h] = Append(handed[h], consumer.event)
                   /\ consumer'.pc = "get"]_vars
    /\ []((consumer.pc = "get" /\ queue # <<>>) => ENABLED ConsumeGet)

\* the first handler raised on an event that the other handlers received,
\* and a later event has been dispatched
RaiseDidNotStop ==
    \E e \in 1..MaxPublish :
        /\ <<e, "all_1">> \in raised
        /\ \E k \in 1..Len(handed["all_2"]) : handed["all_2"][k].id = e
        /\ \E k \in 1..Len(handed["all_1"]) : handed["all_1"][k].id > e



\* the record of the execution says failed, "Manually cancelled"
ManuallyCancelled(e) ==
    /\ e \in RowIds
    /\ executions[e].status = "failed"
    /\ executions[e].result = "Manually cancelled"

\* the cancel endpoint's write, whatever the backend's cancel did, sets the
\* record to failed with result "Manually cancelled"
CancelWritesManuallyCancelled ==
    [][\A outcome \in CancelOutcomes, e \in ExecIds :
            ApiCancelWrite(outcome) /\ api.eid = e => ManuallyCancelled(e)']_vars

\* C30: cancelling a pending or running execution through the cancel
\* operation attempts the backend cancel and, whether that succeeded, returned
\* false or raised, leaves the execution failed with result "Manually
\* cancelled": the endpoint's write sets that record, and the handling of the
\* event that the backend's cancel published for the execution keeps it
CancelLeavesManuallyCancelled ==
    [][/\ \A outcome \in CancelOutcomes, e \in ExecIds :
            ApiCancelWrite(outcome) /\ api.eid = e => ManuallyCancelled(e)'
       /\ \A e \in ExecIds :
            SchedAgentCancelled(e) /\ ManuallyCancelled(e)
                => ManuallyCancelled(e)']_vars


\* the execution is pending or running in the store and its agent has been
\* launched at the Oz service
InFlight(e) ==
    /\ e \in RowIds
    /\ executions[e].status \in ACTIVE
    /\ oz_runs[e] # "none"

\* C31: after a restart of the coordinator every execution that was pending or
\* running with its agent launched at the polling backend is tracked again, so
\* that an AGENT_COMPLETED or AGENT_FAILED event is eventually published for it
RestartTracksInFlight ==
    \A e \in ExecIds :
        (oz.poll.pc = "stopped" /\ InFlight(e)) ~> (terminal_events[e] > 0)

\* C40: the polling backend publishes at most one terminal event for an
\* execution, also when a cancel, a poll that sees the run ended and the
\* give-up after repeated poll failures overlap
OneTerminalEvent == \A e \in ExecIds : terminal_events[e] <= 1


\* C32: on shutdown every event the bus has accepted is dispatched to its
\* handlers before the consumer is stopped: at the step that stops the
\* consumer no event waits in the queue and no dispatch is in progress
DrainedBeforeStop ==
    [][(consumer.pc # "stopped" /\ consumer'.pc = "stopped")
            => (queue = <<>> /\ consumer.pc = "get")]_vars


\* the label set carries an ag/* label other than ag/todo
HandledState(ls) == \E l \in ls : ag_prefixed(l) /\ l # "ag/todo"

\* C33: an open issue that carries an ag/* label other than ag/todo is never
\* selected by the scanner and never passed to classify-and-act by the
\* ISSUE_CREATED and ISSUE_UPDATED handlers (judged by the labels of the event),
\* and an open issue whose only ag/* label is ag/todo is selected by the scan
HandledNeverSelected ==
    [][/\ LoopScan =>
            \A i \in Issues :
                /\ HandledState(labels[i]) => i \notin task'["loop"].items
                /\ (issue_open[i] /\ "ag/todo" \in labels[i]
                        /\ ~HandledState(labels[i]))
                    => i \in task'["loop"].items
       /\ \A i \in Issues, pl \in SUBSET InitialLabels :
            (SchedIssueCreated(i, pl, "SIMPLE") \/ SchedIssueUpdated(i, pl, "SIMPLE"))
                => ~HandledState(pl)]_vars


\* the issue carries ag/skipped or ag/failed
TerminalLabel(i) == labels[i] \cap {"ag/skipped", "ag/failed"} # {}

\* C34: ag/skipped and ag/failed are terminal: while an issue carries one of
\* them, no handler of the scheduler changes its ag/* labels and none
\* launches an agent for it
TerminalLabelsStay ==
    [][\A i \in Issues :
            TerminalLabel(i) =>
                /\ labels'[i] \cap AG_LABELS = labels[i] \cap AG_LABELS
                /\ \A l \in launches' \ launches : l.issue_id # i]_vars


\* C35: a transition made with transition_to leaves the tagging label
\* ag/sub-issue on the issue
TransitionKeepsSubIssue ==
    [][\A i \in Issues, new_label \in AG_LABELS :
            (LabelTransition(i, new_label) /\ "ag/sub-issue" \in labels[i])
                => "ag/sub-issue" \in labels'[i]]_vars

\* the lifecycle state labels an issue carries
StateLabels(i) == labels[i] \cap (AG_LABELS \ {"ag/sub-issue", "ag/epic"})

\* C36: when transition_to calls for one issue with different targets run
\* together, both labels show only while a call is in progress: once every
\* call has finished the issue carries exactly one ag/* state label
OneStateLabelAtRest ==
    (\A c \in Callers : label_calls[c].pc = "idle")
        => \A i \in Issues : Cardinality(StateLabels(i)) = 1


\* C37: ci_fix_count and last_ci_check_sha advance only for a
\* CHECK_RUN_FAILED event that launched a fix_ci execution: a step that
\* changes the metadata of an issue is the launch of fix_ci for that issue, so
\* an event whose launch was skipped leaves both fields as they were
CiAdvancesOnlyWithLaunch ==
    [][\A i \in Issues :
            meta_of(issue_state'[i]) # meta_of(issue_state[i])
                => \E l \in launches' \ launches :
                        l.issue_id = i /\ l.mode = "fix_ci"]_vars


\* issue i is labelled in flight and the execution that worked on it has
\* ended failed by the timeout sweep, a rejected launch or a manual cancel,
\* with no active execution left
IN_FLIGHT == {"ag/in-progress", "ag/planning"}

EndedWithoutAgent(i) ==
    /\ labels[i] \cap IN_FLIGHT # {}
    /\ ~_has_active_execution(i)
    /\ \E e \in RowIds :
            /\ executions[e].issue_id = i
            /\ executions[e].status = "failed"
            /\ executions[e].result \in
                    {"Timed out", "Launch failed", "Manually cancelled"}

\* C38: no issue stays ag/in-progress or ag/planning forever without an
\* active execution: after such an end its label eventually leaves the
\* in-flight state or a later scan selects the issue again
InFlightEventuallyLeft ==
    \A i \in Issues :
        EndedWithoutAgent(i) ~> (labels[i] \cap IN_FLIGHT = {} \/ i \in scan)


\* the launches made for issue i
LaunchesFor(i) == {l \in launches : l.issue_id = i}

\* C39: a nudge results in at most one agent launch, and is marked processed
\* only after an agent was launched for it: no step launches for the nudged
\* issue when a launch for its nudge exists already, and a step that takes
\* the nudge out of the pending nudges finds a launch for it
NudgeLaunchesOnce ==
    [][\A i \in NudgedIssue :
            /\ LaunchesFor(i)' # LaunchesFor(i) => LaunchesFor(i) = {}
            /\ (i \in nudge_queue /\ i \notin nudge_queue')
                    => LaunchesFor(i) # {}]_vars

\* ... the second half alone
NudgeProcessedAfterLaunch ==
    [][\A i \in NudgedIssue :
            (i \in nudge_queue /\ i \notin nudge_queue')
                => LaunchesFor(i) # {}]_vars

====
